---- MODULE Spec2Model ----
(***************************************************************************)
(* Snoot: the message queue / batcher of src/src/proxy.ts driving the      *)
(* Gemini backend supervisor of src/src/gemini.ts.                         *)
(*                                                                         *)
(* One state of the model is one point between two tasks of the event      *)
(* loop: every action is one synchronous run of a handler (a messenger     *)
(* callback, a stream event, a timer, a promise continuation) up to its    *)
(* next await.  Timers are untimed (a scheduled timer may fire at any      *)
(* later point) except the watchdog, which compares the clock `now`        *)
(* (minutes) with processingStartedAt.  Nothing but that difference is     *)
(* ever read, so the clock's origin is moved with every write of           *)
(* processingStartedAt: a drain starts at minute StartOfDrain.             *)
(*                                                                         *)
(* Backend output is kept as the class of the text, which is all the code  *)
(* inspects: "" (empty), " " (only whitespace), "x" (text without an       *)
(* error marker), "500" (text containing a 500 / internal-error marker).   *)
(***************************************************************************)
EXTENDS Integers, Sequences, FiniteSets, TLC

\* ---- bounds of the model ------------------------------------------------
MaxMsgs == 2      \* Spec: inbound messages that enter the queue
MaxProcs == 2     \* Spec: worker processes spawned
BatchMsgs == 3    \* BatchSpec: inbound messages, and worker processes
RetryMsgs == 1    \* RetrySpec: inbound messages
WindowSize == 2   \* ContextSpec: config.windowSize
MaxPins == 1      \* ContextSpec: pins held at a time
MaxInFlight == 1  \* ContextSpec: compact() calls awaiting the summarizer
MaxPush == 4      \* GroupSpec: entries pushed to the chunk buffer
MaxFlushes == 1   \* GroupSpec, TurnSpec: times the flush interval fires
TicksPerDay == 2  \* RetentionSpec: instants of a day that load() can run at
MaxBeyond == 2    \* RetentionSpec: days beyond the retention time

\* ---- program constants --------------------------------------------------
MAX_RATE_LIMIT_RETRIES == 5
API_ERROR_RETRY_DELAYS == <<30, 60>>
PROCESSING_TIMEOUT == 5     \* 5 * 60_000 ms, in minutes
ARCHIVE_RETENTION_DAYS == 30

\* processes of the retry scenario: the first attempt and every retry
RetryProcs == MAX_RATE_LIMIT_RETRIES + 1

\* ContextSpec: config.compactAt; the pairs in the recent file that load()
\* reads; the pairs ever archived; the highest id addPin may issue
CompactAt == WindowSize + 1
LoadPairs == WindowSize + 1
MaxPairs == LoadPairs + 1
MaxId == MaxPins + 1

\* BypassSpec: the messages and commands that arrive
BypassMsgs == MaxMsgs + 1

\* LiveSpec: the worker processes spawned
LiveProcs == MaxProcs + 1

\* OverlapSpec: the pairs ever archived, the compact() calls that await
OverlapPairs == LoadPairs + MaxMsgs
OverlapInFlight == MaxInFlight + 1

\* TurnSpec: the messages, the entries pushed, the pairs ever archived
TurnMsgs == MaxFlushes
TurnPush == MaxPush - 2
TurnPairs == LoadPairs + TurnMsgs

NULL == 0
\* Date.now() at the moment processQueue stores it
StartOfDrain == 1
Pids == 1..RetryProcs

VARIABLES
  \* proxy.ts
  messageQueue, processing, processingStartedAt, turns,
  \* gemini.ts
  proc, alive, responseResolvers, accumulatedText, lastUserMessage,
  rateLimitRetryCount, apiErrorRetryCount, pendingRetry, rateLimitDetected,
  healthCheckTimer, retryTimers, killWaits,
  \* environment: the clock and the worker processes
  now, procState,
  \* history: messages arrived, messages handed to a turn, the waiters in
  \* the order they were resolved
  arrived, batched, resolvedLog,
  \* the handler that ran last was a kill() that returned at its guard
  idleKill

VARIABLES
  \* context.ts, in memory: the recent window, the rolling summary, the
  \* counters and pins
  recent, summary, state,
  \* context.ts, on disk: recent.jsonl, summary.md, state.json, and the
  \* daily archive files read as one sequence
  recentFile, summaryFile, stateFile, archive,
  \* load() has run
  loaded,
  \* the compact() calls that await the summarizer, in the order they were
  \* made: what each holds in its locals
  compactions,
  \* the handler that ran last was a compact() that returned at a guard
  \* ("compactSkipped") or one that caught the summarizer's exception
  \* ("compactFailed"); "" after every other handler
  lastOp

proxyVars == <<messageQueue, processing, processingStartedAt, turns>>
supVars == <<proc, alive, responseResolvers, accumulatedText, lastUserMessage,
             rateLimitRetryCount, apiErrorRetryCount, pendingRetry,
             rateLimitDetected, healthCheckTimer, retryTimers, killWaits>>
envVars == <<now, procState>>
histVars == <<arrived, batched, resolvedLog>>
\* proxy.ts: the streaming aggregator, the position of a handleMessage call
\* after llm.send, and what the messenger was asked to deliver
VARIABLES
  chunkBuffer,      \* entries pushed by onChunk / onActivity and not flushed
  textCharsSent,    \* characters of text entries taken by a flush
  flushes,          \* the flushChunkBuffer calls, in call order
  flushTimer,       \* the 30 s interval of handleMessage is set
  hmPc,             \* where handleMessage stands
  hmResponse,       \* what waitForResponse resolved with
  pushed,           \* entries pushed so far (the next entry's number)
  textPushed,       \* a text entry was pushed in this turn
  lostText,         \* a send of this turn's response text has thrown and
                    \* the notice of the catch has not been sent since
  hmTurn,           \* handleMessage calls that reached llm.send
  outbox            \* messages delivered to the user since the turn began

aggVars == <<chunkBuffer, textCharsSent, flushes, flushTimer, hmPc,
             hmResponse, pushed, textPushed, lostText, hmTurn>>

ctxVars == <<recent, summary, state, recentFile, summaryFile, stateFile,
             archive, loaded, compactions, lastOp>>
\* context.ts: the archive directory as earlier runs of the service left it
VARIABLES
  archiveFiles,     \* the names in the archive directory
  clock,            \* Date.now(), in ticks of a day
  listed            \* what readdirSync gave the last cleanOldArchives call

dirVars == <<archiveFiles, clock, listed>>
vars == <<proxyVars, supVars, envVars, histVars, ctxVars, aggVars, outbox,
          dirVars>>

\* ---- texts ----------------------------------------------------------------
\* A text is a sequence of tokens.  Inbound messages and prompts are built
\* from message tokens; backend output from the tokens of Contents.
Tok(kind, id) == [kind |-> kind, id |-> id]
SEP == Tok("blankline", 0)
Kinds == {"text", "profile"}

Contents == {" ", "x", "500"}
ExitFailedNotice == "[Gemini process failed (exit code)]"
KilledNotice == "[Gemini process was killed unexpectedly]"

\* accumulatedText += content, on classes of text
Concat(a, c) ==
  IF a = "500" \/ c = "500" THEN "500"
  ELSE IF a = "x" \/ c = "x" THEN "x"
  ELSE IF a = " " \/ c = " " THEN " "
  ELSE ""

\* responseText.includes("500") || includes("Internal server error") || ...
IsApiError(t) == t = "500"
\* !responseText.trim()
TrimEmpty(t) == t \in {"", " "}

\* messages.join("\n\n"), written as the code's Array.join folds it
RECURSIVE JoinFrom(_, _)
JoinFrom(ms, i) ==
  IF i > Len(ms) THEN <<>>
  ELSE IF i = Len(ms) THEN <<ms[i]>>
  ELSE <<ms[i], SEP>> \o JoinFrom(ms, i + 1)

Join(ms) == JoinFrom(ms, 1)

\* text.trim().match(/^\/profile\s+(.+)/i)
ProfileMatch(text) == Len(text) > 0 /\ text[1].kind = "profile"
\* buildProfilePrompt(profileMatch[1], avatarSvgPath)
BuildProfilePrompt(text) == <<Tok("svgprompt", text[1].id)>>

\* the text handleMessage hands to llm.send
TurnText(text) ==
  IF ProfileMatch(text) THEN BuildProfilePrompt(text) ELSE text

\* send(): fullPrompt = systemPrompt + "\n\n" + text
FullPrompt(text) == <<Tok("system", 0), SEP>> \o text

InSeq(x, s) == \E i \in 1..Len(s) : s[i] = x

NextPid == 1 + Cardinality({p \in Pids : procState[p] # "unborn"})
\* a worker is "running" until its result event, "resulted" from then until
\* it exits
Live == {"running", "resulted"}
Running == {p \in Pids : procState[p] \in Live}
\* a worker that has ended and whose exit handler has not run yet: ended by
\* itself, or by SIGKILL
Exited == {"exited", "killed"}
\* the exit code proc.exited resolves with, as far as the code reads it
\* (code !== 0); a process ended by a signal never reports 0
ExitCodes(st) == IF st = "killed" THEN {"nonzero"} ELSE {"zero", "nonzero"}

\* proc.kill("SIGKILL") on handle h: a running process dies at once
SigKill(ps, h) ==
  IF h # NULL /\ ps[h] \in Live THEN [ps EXCEPT ![h] = "killed"] ELSE ps

\* context.ts 41 and 255: the state of a new or reset store
InitialState == [nextId |-> 1, totalPairs |-> 0, pins |-> <<>>]

InitService ==
  /\ messageQueue = <<>>
  /\ processing = FALSE
  /\ processingStartedAt = 0
  /\ turns = <<>>
  /\ proc = NULL
  /\ alive = FALSE
  /\ responseResolvers = <<>>
  /\ accumulatedText = ""
  /\ lastUserMessage = <<>>
  /\ rateLimitRetryCount = 0
  /\ apiErrorRetryCount = 0
  /\ pendingRetry = FALSE
  /\ rateLimitDetected = FALSE
  /\ healthCheckTimer = FALSE
  /\ retryTimers = 0
  /\ killWaits = {}
  /\ now = StartOfDrain
  /\ procState = [p \in Pids |-> "unborn"]
  /\ arrived = 0
  /\ batched = 0
  /\ resolvedLog = <<>>
  /\ idleKill = FALSE
  /\ recent = <<>>
  /\ summary = ""
  /\ state = InitialState
  /\ recentFile = <<>>
  /\ summaryFile = ""
  /\ stateFile = InitialState
  /\ archive = <<>>
  /\ loaded = FALSE
  /\ compactions = <<>>
  /\ lastOp = ""
  /\ chunkBuffer = <<>>
  /\ textCharsSent = 0
  /\ flushes = <<>>
  /\ flushTimer = FALSE
  /\ hmPc = "idle"
  /\ hmResponse = ""
  /\ pushed = 0
  /\ textPushed = FALSE
  /\ lostText = FALSE
  /\ hmTurn = 0
  /\ outbox = <<>>
  /\ listed = {}

\* the service starts with an empty archive directory
Init ==
  /\ InitService
  /\ archiveFiles = {}
  /\ clock = 0

\* ---- gemini.ts: the supervisor ---------------------------------------------

\* spawnProcess (the synchronous part): a fresh handle, marked alive, the
\* accumulator cleared, the liveness probe restarted
SpawnProcess(ps, pid) ==
  /\ proc' = pid
  /\ alive' = TRUE
  /\ accumulatedText' = ""
  /\ healthCheckTimer' = TRUE
  /\ procState' = [ps EXCEPT ![pid] = "running"]

\* send(): reset the retry counters, SIGKILL a leftover process that is
\* still marked alive, remember the prompt, spawn
Send(text, limit) ==
  /\ NextPid <= limit
  /\ rateLimitRetryCount' = 0
  /\ apiErrorRetryCount' = 0
  /\ lastUserMessage' = FullPrompt(text)
  /\ SpawnProcess(IF proc # NULL /\ alive THEN SigKill(procState, proc)
                  ELSE procState, NextPid)

\* waitForResponse(): push one resolver
WaitForResponse(w) == responseResolvers' = Append(responseResolvers, w)

\* resolving the waiters ws (in this order) with text r resumes their
\* handleMessage invocations; t is the turn table they are resumed in
Resolve(ws, r) ==
  /\ turns' = [i \in DOMAIN turns |->
                 IF InSeq(i, ws) THEN [pc |-> "post", response |-> r]
                 ELSE turns[i]]
  /\ resolvedLog' = resolvedLog \o ws

\* the exit handler's choice of text for each pending waiter
ExitText(acc, code) ==
  IF acc # "" THEN acc
  ELSE IF code # "zero" THEN ExitFailedNotice
  ELSE ""

\* ---- variants of single definitions, to test what the properties below
\* ---- depend on ------------------------------------------------------------
KeepRetryCount(c) == c
LastIndex(rs) == Len(rs)
AliveOnly(h, a) == a
DrainMoreThanOne(q) == Len(q) > 1
RateLimitRetryOneMore(c) == c <= MAX_RATE_LIMIT_RETRIES

\* the counters after a terminal result (gemini.ts 294-296)
ResetRetryCount(c) == 0

\* rateLimitRetryCount < MAX_RATE_LIMIT_RETRIES
RateLimitRetryAllowed(c) == c < MAX_RATE_LIMIT_RETRIES

\* responseResolvers.shift(): the index of the resolver a result resolves
ShiftIndex(rs) == 1

RemoveAt(s, i) == SubSeq(s, 1, i - 1) \o SubSeq(s, i + 1, Len(s))

\* kill(): the guard `if (!proc || !alive) return`, negated
KillGuard(h, a) == h # NULL /\ a

\* the liveness probe's choice of text for each pending waiter
ProbeText(acc) == IF acc # "" THEN acc ELSE KilledNotice

\* handleOutputMessage, case "message" with role assistant
ProcMessage(p, c) ==
  /\ idleKill' = FALSE /\ UNCHANGED dirVars
  /\ UNCHANGED <<aggVars, outbox>>
  /\ UNCHANGED ctxVars
  /\ procState[p] = "running"
  /\ accumulatedText' = Concat(accumulatedText, c)
  /\ UNCHANGED <<proxyVars, proc, alive, responseResolvers, lastUserMessage,
                 rateLimitRetryCount, apiErrorRetryCount, pendingRetry,
                 rateLimitDetected, healthCheckTimer, retryTimers, killWaits,
                 envVars, histVars>>

\* handleOutputMessage, case "error" with a notice that matches rate /
\* limit / quota / 429 (any other notice changes nothing)
ProcError(p) ==
  /\ idleKill' = FALSE /\ UNCHANGED dirVars
  /\ UNCHANGED <<aggVars, outbox>>
  /\ UNCHANGED ctxVars
  /\ procState[p] = "running"
  /\ rateLimitDetected' = TRUE
  /\ UNCHANGED <<proxyVars, proc, alive, responseResolvers, accumulatedText,
                 lastUserMessage, rateLimitRetryCount, apiErrorRetryCount,
                 pendingRetry, healthCheckTimer, retryTimers, killWaits,
                 envVars, histVars>>

\* handleOutputMessage, case "result"
ProcResult(p) ==
  /\ idleKill' = FALSE /\ UNCHANGED dirVars
  /\ UNCHANGED <<aggVars, outbox>>
  /\ UNCHANGED ctxVars
  /\ procState[p] = "running"
  /\ procState' = [procState EXCEPT ![p] = "resulted"]
  /\ accumulatedText' = ""
  /\ LET responseText == accumulatedText IN
     IF /\ responseText = ""
        /\ rateLimitDetected
        /\ RateLimitRetryAllowed(rateLimitRetryCount)
        /\ lastUserMessage # <<>>
     THEN /\ rateLimitRetryCount' = rateLimitRetryCount + 1
          /\ rateLimitDetected' = FALSE
          /\ pendingRetry' = TRUE
          /\ retryTimers' = retryTimers + 1
          /\ UNCHANGED <<apiErrorRetryCount, responseResolvers, turns,
                         resolvedLog>>
     ELSE IF /\ IsApiError(responseText)
             /\ TrimEmpty(responseText)
             /\ lastUserMessage # <<>>
             /\ apiErrorRetryCount < Len(API_ERROR_RETRY_DELAYS)
     THEN /\ apiErrorRetryCount' = apiErrorRetryCount + 1
          /\ pendingRetry' = TRUE
          /\ retryTimers' = retryTimers + 1
          /\ UNCHANGED <<rateLimitRetryCount, rateLimitDetected,
                         responseResolvers, turns, resolvedLog>>
     ELSE /\ rateLimitDetected' = FALSE
          /\ rateLimitRetryCount' = ResetRetryCount(rateLimitRetryCount)
          /\ apiErrorRetryCount' = ResetRetryCount(apiErrorRetryCount)
          /\ UNCHANGED <<pendingRetry, retryTimers>>
          /\ IF responseResolvers # <<>>
             THEN LET i == ShiftIndex(responseResolvers) IN
                  /\ responseResolvers' = RemoveAt(responseResolvers, i)
                  /\ Resolve(<<responseResolvers[i]>>, responseText)
             ELSE UNCHANGED <<responseResolvers, turns, resolvedLog>>
  /\ UNCHANGED <<messageQueue, processing, processingStartedAt, proc, alive,
                 lastUserMessage, healthCheckTimer, killWaits, now,
                 arrived, batched>>

\* proc.exited.then(...) of spawnProcess for a process that ended with
\* `code`, followed in the same microtask run by the continuation of a
\* kill() that awaits this process.  The onExit callbacks it calls last
\* (and the probe calls too) only write a log line (proxy.ts 103-110).
HandleExit(p, code) ==
  /\ procState' = [procState EXCEPT ![p] = "done"]
  /\ alive' = FALSE
  /\ healthCheckTimer' = FALSE
  /\ accumulatedText' = ""
  /\ IF pendingRetry
     THEN UNCHANGED <<responseResolvers, turns, resolvedLog>>
     ELSE /\ responseResolvers' = <<>>
          /\ Resolve(responseResolvers, ExitText(accumulatedText, code))
  /\ IF p \in killWaits
     THEN proc' = NULL /\ killWaits' = killWaits \ {p}
     ELSE UNCHANGED <<proc, killWaits>>
  /\ UNCHANGED <<messageQueue, processing, processingStartedAt,
                 lastUserMessage, rateLimitRetryCount, apiErrorRetryCount,
                 pendingRetry, rateLimitDetected, retryTimers, now,
                 arrived, batched>>

\* the worker process ends by itself, with code 0 or a failure code (the
\* code is first read by the exit handler).  Between the exit and the
\* exit handler the dead process is seen only through the supervisor's
\* handle (the liveness probe, SIGKILL) or by a kill() that awaits it; the
\* exit of any other process and its handler are one step.
ProcExit(p) ==
  /\ idleKill' = FALSE /\ UNCHANGED dirVars
  /\ UNCHANGED <<aggVars, outbox>>
  /\ UNCHANGED ctxVars
  /\ procState[p] \in Live
  /\ IF p = proc \/ p \in killWaits
     THEN /\ procState' = [procState EXCEPT ![p] = "exited"]
          /\ UNCHANGED <<proxyVars, supVars, now, histVars>>
     ELSE \E code \in ExitCodes("exited") : HandleExit(p, code)

\* the exit handler of a process that has ended
ExitHandler(p) ==
  /\ idleKill' = FALSE /\ UNCHANGED dirVars
  /\ UNCHANGED <<aggVars, outbox>>
  /\ UNCHANGED ctxVars
  /\ procState[p] \in Exited
  /\ \E code \in ExitCodes(procState[p]) : HandleExit(p, code)

\* one tick of the 20 s liveness probe
HealthCheckTick ==
  /\ idleKill' = FALSE /\ UNCHANGED dirVars
  /\ UNCHANGED <<aggVars, outbox>>
  /\ UNCHANGED ctxVars
  /\ healthCheckTimer
  /\ IF proc = NULL \/ ~alive
     THEN /\ healthCheckTimer' = FALSE
          /\ UNCHANGED <<proc, alive, responseResolvers, accumulatedText,
                         turns, resolvedLog>>
     ELSE IF procState[proc] \notin Live
     THEN /\ alive' = FALSE
          /\ proc' = NULL
          /\ healthCheckTimer' = FALSE
          /\ responseResolvers' = <<>>
          /\ Resolve(responseResolvers, ProbeText(accumulatedText))
          /\ accumulatedText' = ""
             ELSE UNCHANGED <<proc, alive, healthCheckTimer, responseResolvers,
                      accumulatedText, turns, resolvedLog>>
  /\ UNCHANGED <<messageQueue, processing, processingStartedAt,
                 lastUserMessage, rateLimitRetryCount, apiErrorRetryCount,
                 pendingRetry, rateLimitDetected, retryTimers, killWaits,
                 envVars, arrived, batched>>

\* the setTimeout callback of a rate-limit or API-error retry
RetryTimerFire(limit) ==
  /\ idleKill' = FALSE /\ UNCHANGED dirVars
  /\ UNCHANGED <<aggVars, outbox>>
  /\ UNCHANGED ctxVars
  /\ retryTimers > 0
  /\ NextPid <= limit
  /\ retryTimers' = retryTimers - 1
  /\ pendingRetry' = FALSE
  /\ SpawnProcess(procState, NextPid)
  /\ UNCHANGED <<proxyVars, responseResolvers, lastUserMessage,
                 rateLimitRetryCount, apiErrorRetryCount, rateLimitDetected,
                 killWaits, now, histVars>>

\* kill() up to its await: SIGTERM leaves it to the process when to exit
Kill ==
  IF KillGuard(proc, alive)
  THEN /\ alive' = FALSE
       /\ healthCheckTimer' = FALSE
       /\ killWaits' = killWaits \cup {proc}
       /\ UNCHANGED <<proc, responseResolvers, accumulatedText,
                      lastUserMessage, rateLimitRetryCount,
                      apiErrorRetryCount, pendingRetry, rateLimitDetected,
                      retryTimers>>
       /\ idleKill' = FALSE /\ UNCHANGED dirVars
  ELSE /\ idleKill' = TRUE /\ UNCHANGED dirVars
       /\ UNCHANGED supVars

\* kill() after 5 s without the awaited exit: SIGKILL whatever the handle
\* is now, then drop the handle
KillTimeout(p) ==
  /\ idleKill' = FALSE /\ UNCHANGED dirVars
  /\ UNCHANGED <<aggVars, outbox>>
  /\ UNCHANGED ctxVars
  /\ p \in killWaits
  /\ procState[p] \in Live
  /\ procState' = SigKill(procState, proc)
  /\ proc' = NULL
  /\ killWaits' = killWaits \ {p}
  /\ UNCHANGED <<proxyVars, alive, responseResolvers, accumulatedText,
                 lastUserMessage, rateLimitRetryCount, apiErrorRetryCount,
                 pendingRetry, rateLimitDetected, healthCheckTimer,
                 retryTimers, now, histVars>>

\* ---- proxy.ts: queue and turns ------------------------------------------------

\* the drain loop's condition, messageQueue.length > 0
DrainMore(q) == Len(q) > 0

\* handleMessage up to `await llm.waitForResponse()`; t is the turn table
HandleMessage(text, n, t, limit) ==
  /\ Send(TurnText(text), limit)
  /\ WaitForResponse(Len(t) + 1)
  /\ turns' = Append(t, [pc |-> "waiting", response |-> ""])
  /\ batched' = batched + n
  /\ UNCHANGED <<pendingRetry, rateLimitDetected, retryTimers, killWaits,
                 resolvedLog>>

\* processQueue from its first line to the first await
ProcessQueue(q, limit) ==
  IF DrainMore(q)
  THEN /\ processing' = TRUE
       /\ now' = StartOfDrain
       /\ processingStartedAt' = now'
       /\ messageQueue' = <<>>
       /\ HandleMessage(Join(q), Len(q), turns, limit)
  ELSE /\ processing' = FALSE
       /\ processingStartedAt' = 0
       /\ now' = StartOfDrain
       /\ messageQueue' = q
       /\ UNCHANGED <<turns, supVars, procState, batched, resolvedLog>>

\* onMessage for a message that is no bypass command
OnMessage(kind, msgLimit, procLimit) ==
  /\ idleKill' = FALSE /\ UNCHANGED dirVars
  /\ UNCHANGED <<aggVars, outbox>>
  /\ UNCHANGED ctxVars
  /\ arrived < msgLimit
  /\ arrived' = arrived + 1
  /\ LET q == Append(messageQueue, Tok(kind, arrived + 1))
         stuck == /\ processing
                  /\ processingStartedAt > 0
                  /\ now - processingStartedAt > PROCESSING_TIMEOUT
     IN IF processing /\ ~stuck
        THEN /\ messageQueue' = q
             /\ UNCHANGED <<processing, processingStartedAt, turns, supVars,
                            envVars, batched, resolvedLog>>
        ELSE ProcessQueue(q, procLimit)

\* a handleMessage invocation that processQueue can be resumed from: one
\* whose response is resolved ("post": its post-response phase, then its
\* return), or one whose exception processQueue has caught ("caught": the
\* error notice is being sent to the user)
Resumable == {"post", "caught"}

\* the message processQueue's catch sends, `Error: ...`
ErrorNotice == [kind |-> "error", lines |-> <<>>, ns |-> <<>>]

\* what has been delivered once the catch is through: the send of the
\* error message delivers, or throws and is swallowed with a log line
AfterCatch(pc, sent) ==
  IF pc = "caught" THEN {sent, Append(sent, ErrorNotice)} ELSE {sent}

\* a variant of DrainAfter below: the catch ends the drain loop
DrainAfterCatchEnds(pc, q) == pc # "caught" /\ DrainMore(q)

\* the loop test after a handleMessage call that returned or was caught:
\* try and catch are inside the while loop, the test is the same
DrainAfter(pc, q) == DrainMore(q)

\* handleMessage invocation w returns (or the catch of processQueue is
\* through), then the processQueue loop that awaited it
HandleMessageReturns(w, limit) ==
  /\ outbox' \in AfterCatch(turns[w].pc, outbox)
  /\ LET t == [turns EXCEPT ![w] = [pc |-> "returned", response |-> ""]] IN
     IF DrainAfter(turns[w].pc, messageQueue)
     THEN /\ messageQueue' = <<>>
          /\ HandleMessage(Join(messageQueue), Len(messageQueue), t, limit)
          /\ UNCHANGED <<processing, processingStartedAt, now, arrived>>
     ELSE /\ processing' = FALSE
          /\ processingStartedAt' = 0
          /\ now' = StartOfDrain
          /\ turns' = t
          /\ UNCHANGED <<messageQueue, supVars, procState, histVars>>

\* handleMessage from the resolved response to its return, then the
\* processQueue loop that awaited it
ResumeHandleMessage(w, limit) ==
  /\ idleKill' = FALSE /\ UNCHANGED dirVars /\ UNCHANGED aggVars
  /\ UNCHANGED ctxVars
  /\ w \in DOMAIN turns
  /\ turns[w].pc \in Resumable
  /\ HandleMessageReturns(w, limit)

\* handleCommandDirect for a command whose result carries killProcess
HandleCommandKill ==
  /\ alive
  /\ Kill
  /\ UNCHANGED ctxVars
  /\ UNCHANGED <<aggVars, outbox>>
  /\ UNCHANGED <<proxyVars, envVars, histVars>>

\* ---- proxy.ts: commands outside the queue --------------------------------------

\* Messages by what they start with: plain text, "/profile" followed by a
\* description, "/kill", "/stop" (the README's name of the cancel command),
\* and "status" for the slash texts that handleCommand answers from what it
\* is given
MessageKinds == {"text", "profile", "status", "kill", "stop"}

\* trimmed.startsWith("/")
StartsWithSlash(kind) == kind \in {"profile", "status", "kill", "stop"}
\* trimmed.match(/^\/profile\s+/i)
ProfileRequest(kind) == kind = "profile"

\* a variant of Bypass below: every message goes to the queue
BypassNever(kind) == FALSE

\* onMessage: the test that sends a message to handleCommandDirect
Bypass(kind) == StartsWithSlash(kind) /\ ~ProfileRequest(kind)

\* the response of a command, as delivered
Answer(response) == [kind |-> "answer", lines |-> <<response>>, ns |-> <<>>]

\* commands.ts, handleCommand: the switch on the first word.  "/stop" is no
\* case of it and gets the default's result.
HandleCommand(kind, isAlive) ==
  CASE kind = "kill" /\ ~isAlive ->
         [response |-> "Nothing to cancel", killProcess |-> FALSE]
    [] kind = "kill" /\ isAlive ->
         [response |-> "Request cancelled", killProcess |-> TRUE]
    [] kind = "stop" ->
         [response |-> "Unknown command", killProcess |-> FALSE]
    [] OTHER ->
         [response |-> kind, killProcess |-> FALSE]

\* handleCommandDirect.  /kill while the worker is alive: the result
\* carries killProcess, kill() is called and awaited, and the response is
\* sent when it has returned: when the worker has left killWaits, or at once
\* if kill() finds no handle.  Any other command, /kill while idle
\* included: the response is sent at once.  A throw of that send is
\* swallowed.
HandleCommandDirect(kind, msgLimit) ==
  /\ arrived < msgLimit
  /\ arrived' = arrived + 1
  /\ LET cmdResult == HandleCommand(kind, alive) IN
     IF cmdResult.killProcess /\ alive
     THEN /\ Kill
          /\ IF KillGuard(proc, alive)
             THEN UNCHANGED outbox
             ELSE outbox' \in {outbox, Append(outbox, Answer(cmdResult.response))}
     ELSE /\ idleKill' = FALSE /\ UNCHANGED dirVars
          /\ outbox' \in {outbox, Append(outbox, Answer(cmdResult.response))}
          /\ UNCHANGED supVars
  /\ UNCHANGED <<proxyVars, envVars, batched, resolvedLog, ctxVars, aggVars>>

\* onMessage, for a message without attachment that is no backend switch
OnMessageRouted(kind, msgLimit, procLimit) ==
  IF Bypass(kind)
  THEN HandleCommandDirect(kind, msgLimit)
  ELSE OnMessage(kind, msgLimit, procLimit)

\* ---- a worker process that cannot be created --------------------------------

\* send() when Bun.spawn throws: the counters are reset, a leftover process
\* is killed and forgotten, the prompt is remembered; spawnProcess assigns
\* nothing and the exception leaves send().  The process that did not come
\* to be takes a pid of the model, in state "failed".
SendThrows(text, limit) ==
  /\ NextPid <= limit
  /\ rateLimitRetryCount' = 0
  /\ apiErrorRetryCount' = 0
  /\ lastUserMessage' = FullPrompt(text)
  /\ IF proc # NULL /\ alive
     THEN /\ procState' = [SigKill(procState, proc) EXCEPT ![NextPid] = "failed"]
          /\ proc' = NULL
          /\ alive' = FALSE
     ELSE /\ procState' = [procState EXCEPT ![NextPid] = "failed"]
          /\ UNCHANGED <<proc, alive>>
  /\ UNCHANGED <<accumulatedText, healthCheckTimer>>

\* handleMessage when llm.send throws: it rejects before waitForResponse
\* is called, and processQueue catches the rejection
HandleMessageThrows(text, n, t, limit) ==
  /\ SendThrows(TurnText(text), limit)
  /\ turns' = Append(t, [pc |-> "caught", response |-> ""])
  /\ batched' = batched + n
  /\ UNCHANGED <<responseResolvers, pendingRetry, rateLimitDetected,
                 retryTimers, killWaits, resolvedLog>>

\* onMessage that starts a drain whose worker cannot be created
OnMessageSpawnFails(kind, msgLimit, procLimit) ==
  /\ idleKill' = FALSE /\ UNCHANGED dirVars
  /\ UNCHANGED <<aggVars, outbox>>
  /\ UNCHANGED ctxVars
  /\ arrived < msgLimit
  /\ arrived' = arrived + 1
  /\ LET q == Append(messageQueue, Tok(kind, arrived + 1))
         stuck == /\ processing
                  /\ processingStartedAt > 0
                  /\ now - processingStartedAt > PROCESSING_TIMEOUT
     IN /\ ~(processing /\ ~stuck)
        /\ processing' = TRUE
        /\ now' = StartOfDrain
        /\ processingStartedAt' = now'
        /\ messageQueue' = <<>>
        /\ HandleMessageThrows(Join(q), Len(q), turns, procLimit)

\* the processQueue loop going on to a batch whose worker cannot be created
ResumeSpawnFails(w, limit) ==
  /\ idleKill' = FALSE /\ UNCHANGED dirVars /\ UNCHANGED aggVars
  /\ UNCHANGED ctxVars
  /\ w \in DOMAIN turns
  /\ turns[w].pc \in Resumable
  /\ outbox' \in AfterCatch(turns[w].pc, outbox)
  /\ DrainAfter(turns[w].pc, messageQueue)
  /\ messageQueue' = <<>>
  /\ HandleMessageThrows(Join(messageQueue), Len(messageQueue),
                         [turns EXCEPT ![w] = [pc |-> "returned",
                                               response |-> ""]], limit)
  /\ UNCHANGED <<processing, processingStartedAt, now, arrived>>

\* the retry timer's callback when Bun.spawn throws: pendingRetry is
\* cleared, spawnProcess assigns nothing, the exception leaves the callback
\* with nothing to catch it.  (If the runtime ends the service on it, the
\* behaviour stops in the state this step leaves.)
RetryTimerFireThrows(limit) ==
  /\ idleKill' = FALSE /\ UNCHANGED dirVars
  /\ UNCHANGED <<aggVars, outbox>>
  /\ UNCHANGED ctxVars
  /\ retryTimers > 0
  /\ NextPid <= limit
  /\ retryTimers' = retryTimers - 1
  /\ pendingRetry' = FALSE
  /\ procState' = [procState EXCEPT ![NextPid] = "failed"]
  /\ UNCHANGED <<proxyVars, proc, alive, responseResolvers, accumulatedText,
                 lastUserMessage, rateLimitRetryCount, apiErrorRetryCount,
                 rateLimitDetected, healthCheckTimer, killWaits, now,
                 histVars>>

\* ---- context.ts: the context store --------------------------------------------

\* a MessagePair: its id, its texts (user, assistant and timestamp, one value
\* for the three: the exchange), its pinned flag
Pair(id, text, pinned) == [id |-> id, text |-> text, pinned |-> pinned]

\* what the summarizer may return, trimmed: nothing, or a digest
Summaries == {"", "digest"}

\* A file name of the archive directory is its form, with D for the place
\* of ten characters, and the text at that place: a calendar date, given as
\* its day number, or ten characters of the same shape that are no date
\* ("2026-13-01").
FileName(form, date) == [form |-> form, date |-> date]
Date(day) == [valid |-> TRUE, day |-> day]
NoDate == [valid |-> FALSE, day |-> 0]

\* file.match(/^archive-(\d{4}-\d{2}-\d{2})\.jsonl$/)
ArchiveMatch(file) == file.form = "archive-D.jsonl"

\* new Date(match[1] + "T00:00:00Z").getTime(): midnight UTC of the date,
\* or NaN
GetTime(date) ==
  IF date.valid THEN [nan |-> FALSE, t |-> date.day * TicksPerDay]
  ELSE [nan |-> TRUE, t |-> 0]

\* Date.now() - ARCHIVE_RETENTION_DAYS * 24 * 60 * 60 * 1000
Cutoff(t) == t - ARCHIVE_RETENTION_DAYS * TicksPerDay

\* a variant of Earlier below: <= for <
EarlierOrEqual(fileDate, cutoff) == ~fileDate.nan /\ fileDate.t <= cutoff

\* fileDate < cutoff; no comparison with NaN is true
Earlier(fileDate, cutoff) == ~fileDate.nan /\ fileDate.t < cutoff

\* cleanOldArchives: the directory after the loop (archiveDir exists, load()
\* has made it)
CleanOldArchives(files, t) ==
  {f \in files : ~(ArchiveMatch(f) /\ Earlier(GetTime(f.date), Cutoff(t)))}

\* what load() may find in recent.jsonl: the pairs of earlier runs, ids in
\* order.  Only here can a pair carry pinned = true: no code of this
\* program sets the flag.
PersistedWindows ==
  UNION {{[i \in 1..n |-> Pair(i, i, f[i])] : f \in [1..n -> BOOLEAN]} :
         n \in 0..LoadPairs}

\* recent.filter((p) => p.pinned), recent.filter((p) => !p.pinned)
PinnedOf(w) == SelectSeq(w, LAMBDA p : p.pinned)
UnpinnedOf(w) == SelectSeq(w, LAMBDA p : ~p.pinned)

\* config.windowSize - pinned.length
TargetUnpinned(w) == WindowSize - Len(PinnedOf(w))

\* a variant of NewestUnpinned below: the oldest pairs are the ones kept
OldestKept(u, target) == SubSeq(u, 1, target)

\* unpinned.slice(0, unpinned.length - targetUnpinned)
OldestUnpinned(u, target) == SubSeq(u, 1, Len(u) - target)
\* unpinned.slice(unpinned.length - targetUnpinned)
NewestUnpinned(u, target) == SubSeq(u, Len(u) - target + 1, Len(u))

\* Array.prototype.sort((a, b) => a.id - b.id): stable, by id
RECURSIVE InsertById(_, _)
InsertById(t, x) ==
  IF t = <<>> THEN <<x>>
  ELSE IF t[Len(t)].id <= x.id THEN Append(t, x)
  ELSE Append(InsertById(SubSeq(t, 1, Len(t) - 1), x), t[Len(t)])

RECURSIVE SortById(_)
SortById(w) ==
  IF w = <<>> THEN <<>>
  ELSE InsertById(SortById(SubSeq(w, 1, Len(w) - 1)), w[Len(w)])

\* formatForCompaction: the current summary (left out when empty) and the
\* texts of the pairs, in order; ids and pinned flags do not enter
FormatForCompaction(pairs, currentSummary) ==
  [summary |-> currentSummary,
   messages |-> [i \in 1..Len(pairs) |-> pairs[i].text]]

\* ---- variants of single definitions of the context store -------------------
NoRoomBelowZero(target) == target < 0
RebuildKeptOnly(pinned, toKeep) == SortById(toKeep)
WindowRebuiltOnFailure(w, rebuilt) == rebuilt
ResetClearsArchive(a) == <<>>
ArchiveRewritten(a, pair) == <<pair>>
FindIndexFirst(pins, id) == IF pins = <<>> THEN 0 ELSE 1

\* compact(): targetUnpinned <= 0
NoRoom(target) == target <= 0

\* compact(): recent = [...pinned, ...toKeep].sort(by id)
Rebuild(pinned, toKeep) == SortById(pinned \o toKeep)

\* compact(): the window when the awaited summarizer call throws; the
\* assignments of the try block after the await are not reached
WindowOnFailure(w, rebuilt) == w

\* reset(): the archive is not among the things it writes
ResetArchive(a) == a

\* append(): appendFileSync(todayArchivePath(), ...), the record goes to the
\* end of the archive
ArchiveAppend(a, pair) == Append(a, pair)

\* removePin(): state.pins.findIndex((p) => p.id === id), the first index
\* whose pin has this id; 0 stands for findIndex's -1
FindIndex(pins, id) ==
  LET found == {k \in 1..Len(pins) : pins[k].id = id} IN
  IF found = {} THEN 0 ELSE CHOOSE k \in found : \A j \in found : k <= j

\* load(): state, window and summary as the files hold them.  The files are
\* those of an earlier run: every pair of the window is in the archive.
Load(w) ==
  /\ idleKill' = FALSE
  /\ listed' = archiveFiles
  /\ archiveFiles' = CleanOldArchives(archiveFiles, clock)
  /\ UNCHANGED clock
  /\ UNCHANGED <<aggVars, outbox>>
  /\ ~loaded
  /\ loaded' = TRUE
  /\ recentFile' = w
  /\ recent' = recentFile'
  /\ stateFile' = [nextId |-> Len(w) + 1, totalPairs |-> Len(w), pins |-> <<>>]
  /\ state' = stateFile'
  /\ summaryFile' = ""
  /\ summary' = summaryFile'
  /\ archive' = w
  /\ lastOp' = ""
  /\ UNCHANGED <<proxyVars, supVars, envVars, histVars, compactions>>

\* compact() on window w up to its await: return at a guard, or hand the
\* oldest unpinned pairs and the summary to the summarizer and wait
Compact(w) ==
  LET pinned == PinnedOf(w)
      unpinned == UnpinnedOf(w)
      targetUnpinned == TargetUnpinned(w)
      toCompact == OldestUnpinned(unpinned, targetUnpinned)
      toKeep == NewestUnpinned(unpinned, targetUnpinned)
  IN IF \/ Len(w) <= WindowSize
        \/ NoRoom(targetUnpinned)
        \/ Len(unpinned) <= targetUnpinned
     THEN compactions' = compactions
     ELSE compactions' =
            Append(compactions,
                   [pinned |-> pinned,
                    toKeep |-> toKeep,
                    compactionInput |-> FormatForCompaction(toCompact, summary),
                    window |-> w])

\* handleMessage, recording the exchange: nextPairId(), append(pair), and
\* compact() up to its await if needsCompaction(); pairLimit bounds the
\* pairs ever archived, flightLimit the compact() calls that await
RecordExchange(pairLimit, flightLimit) ==
  /\ loaded
  /\ Len(archive) < pairLimit
  /\ Len(compactions) < flightLimit
  /\ LET pair == Pair(state.nextId, Len(archive) + 1, FALSE) IN
     /\ recent' = Append(recent, pair)
     /\ state' = [state EXCEPT !.nextId = @ + 1, !.totalPairs = @ + 1]
     /\ archive' = ArchiveAppend(archive, pair)
     /\ recentFile' = recent'
     /\ stateFile' = state'
     /\ IF Len(recent') > CompactAt
        THEN Compact(recent')
        ELSE compactions' = compactions
  /\ lastOp' = ""
  /\ UNCHANGED <<summary, summaryFile, loaded>>

\* a turn of the context store alone: the exchange is recorded
RecordTurn ==
  /\ idleKill' = FALSE /\ UNCHANGED dirVars
  /\ UNCHANGED <<aggVars, outbox>>
  /\ RecordExchange(MaxPairs, MaxInFlight)
  /\ UNCHANGED <<proxyVars, supVars, envVars, histVars>>

\* handleCommandDirect for /compact, after its kill(): compact() up to its
\* await
CommandCompact ==
  /\ idleKill' = FALSE /\ UNCHANGED dirVars
  /\ UNCHANGED <<aggVars, outbox>>
  /\ loaded
  /\ Len(compactions) < MaxInFlight
  /\ Compact(recent)
  /\ lastOp' = IF compactions' = compactions THEN "compactSkipped" ELSE ""
  /\ UNCHANGED <<proxyVars, supVars, envVars, histVars, recent, summary, state,
                 recentFile, summaryFile, stateFile, archive, loaded>>

\* compact() from the summarizer's answer s to its return
CompactSucceeds(i, s) ==
  /\ idleKill' = FALSE /\ UNCHANGED dirVars
  /\ UNCHANGED <<aggVars, outbox>>
  /\ i \in 1..Len(compactions)
  /\ summary' = s
  /\ summaryFile' = summary'
  /\ recent' = Rebuild(compactions[i].pinned, compactions[i].toKeep)
  /\ recentFile' = recent'
  /\ stateFile' = state
  /\ compactions' = RemoveAt(compactions, i)
  /\ lastOp' = ""
  /\ UNCHANGED <<proxyVars, supVars, envVars, histVars, state, archive, loaded>>

\* compact() when the summarizer call throws: the catch logs and returns
CompactFails(i) ==
  /\ idleKill' = FALSE /\ UNCHANGED dirVars
  /\ UNCHANGED <<aggVars, outbox>>
  /\ i \in 1..Len(compactions)
  /\ recent' = WindowOnFailure(recent, Rebuild(compactions[i].pinned,
                                               compactions[i].toKeep))
  /\ compactions' = RemoveAt(compactions, i)
  /\ lastOp' = "compactFailed"
  /\ UNCHANGED <<proxyVars, supVars, envVars, histVars, summary, state,
                 recentFile, summaryFile, stateFile, archive, loaded>>

\* reset(), as /forget and /clear call it
Reset ==
  /\ idleKill' = FALSE /\ UNCHANGED dirVars
  /\ UNCHANGED <<aggVars, outbox>>
  /\ loaded
  /\ state' = InitialState
  /\ recent' = <<>>
  /\ summary' = ""
  /\ stateFile' = state'
  /\ recentFile' = recent'
  /\ summaryFile' = ""
  /\ archive' = ResetArchive(archive)
  /\ lastOp' = ""
  /\ UNCHANGED <<proxyVars, supVars, envVars, histVars, loaded, compactions>>

\* addPin(text): the pin takes the next id
AddPin ==
  /\ idleKill' = FALSE /\ UNCHANGED dirVars
  /\ UNCHANGED <<aggVars, outbox>>
  /\ loaded
  /\ state.nextId <= MaxId
  /\ Len(state.pins) < MaxPins
  /\ state' = [state EXCEPT !.nextId = @ + 1,
                            !.pins = Append(@, [id |-> state.nextId])]
  /\ stateFile' = state'
  /\ lastOp' = ""
  /\ UNCHANGED <<proxyVars, supVars, envVars, histVars, recent, summary,
                 recentFile, summaryFile, archive, loaded, compactions>>

\* removePin(id): drop the first pin with this id and return true, or
\* return false; lastOp keeps what it returned
RemovePin(id) ==
  /\ idleKill' = FALSE /\ UNCHANGED dirVars
  /\ UNCHANGED <<aggVars, outbox>>
  /\ loaded
  /\ LET idx == FindIndex(state.pins, id) IN
     IF idx = 0
     THEN /\ lastOp' = "removePinFalse"
          /\ UNCHANGED <<state, stateFile>>
     ELSE /\ state' = [state EXCEPT !.pins = RemoveAt(@, idx)]
          /\ stateFile' = state'
          /\ lastOp' = "removePinTrue"
  /\ UNCHANGED <<proxyVars, supVars, envVars, histVars, recent, summary,
                 recentFile, summaryFile, archive, loaded, compactions>>

\* ---- proxy.ts: the streaming aggregator -------------------------------------

\* A line of output: whether it starts with the tool mark, its wording after
\* the mark, and the " (xN)" suffixes it ends with, in order.  A text of
\* white space only is the wording " ".
Line(mark, name, counts) == [mark |-> mark, name |-> name, counts |-> counts]
\* gemini.ts 311: the activity line of a tool call, `mark tool_name`
ToolLine(name) == Line(TRUE, name, <<>>)
BlankText == Line(FALSE, " ", <<>>)
\* a BufferEntry, with the number of its push
Entry(type, content, n) == [type |-> type, content |-> content, n |-> n]

\* what the backend streams in the aggregation scenario: tool calls X and Y,
\* and text: words, white space, and text that reads like a counted tool
\* line
ToolNames == {"X", "Y"}
ChunkTexts ==
  {Line(FALSE, "a", <<>>), Line(FALSE, "b", <<>>), BlankText,
   Line(TRUE, "X", <<2>>)}
\* what it streams in the turn scenario
TurnToolNames == {"X"}
TurnChunkTexts == {Line(FALSE, "a", <<>>)}

\* entry.content.length, for a chunk (gemini.ts 229 passes no empty chunk)
CharsOf(content) == 1

\* flushChunkBuffer: the grouping loop.  Groups are sequences of entries.
RECURSIVE GroupFrom(_, _, _)
GroupFrom(entries, i, groups) ==
  IF i > Len(entries) THEN groups
  ELSE LET e == entries[i] IN
       IF e.type = "text"
       THEN GroupFrom(entries, i + 1, Append(groups, <<e>>))
       ELSE LET gs == IF groups = <<>> THEN <<<<>>>> ELSE groups IN
            GroupFrom(entries, i + 1,
                      [gs EXCEPT ![Len(gs)] = Append(@, e)])

\* a variant of GroupEntries below: every entry is a group of its own
GroupEachAlone(entries) == [i \in 1..Len(entries) |-> <<entries[i]>>]

GroupEntries(entries) == GroupFrom(entries, 1, <<>>)

\* textCharsSent += entry.content.length, over the text entries taken
RECURSIVE TextChars(_)
TextChars(entries) ==
  IF entries = <<>> THEN 0
  ELSE (IF entries[1].type = "text" THEN CharsOf(entries[1].content) ELSE 0)
       + TextChars(Tail(entries))

\* prev.match(/^(.+?)( \(x(\d+)\))?$/): group 1 is prev without its last
\* suffix, group 3 the count of that suffix (0: there is none)
PrevBase(prev) ==
  IF prev.counts = <<>> THEN prev
  ELSE [prev EXCEPT !.counts = SubSeq(@, 1, Len(@) - 1)]
PrevCount(prev) ==
  IF prev.counts = <<>> THEN 0 ELSE prev.counts[Len(prev.counts)]
\* `${line} (x${count})`
WithCount(line, count) == [line EXCEPT !.counts = Append(@, count)]

\* prevMatch && prevMatch[1] === line
SameToolCall(prev, line) == PrevBase(prev) = line

\* flushChunkBuffer: the collapsing loop over the lines of one group
RECURSIVE CollapseFrom(_, _, _)
CollapseFrom(lines, i, collapsed) ==
  IF i > Len(lines) THEN collapsed
  ELSE LET line == lines[i] IN
       IF /\ line.mark
          /\ collapsed # <<>>
          /\ SameToolCall(collapsed[Len(collapsed)], line)
       THEN LET prev == collapsed[Len(collapsed)]
                count == IF PrevCount(prev) # 0 THEN PrevCount(prev) + 1
                         ELSE 2
            IN CollapseFrom(lines, i + 1,
                 [collapsed EXCEPT ![Len(collapsed)] = WithCount(line, count)])
       ELSE CollapseFrom(lines, i + 1, Append(collapsed, line))

Collapse(lines) == CollapseFrom(lines, 1, <<>>)

\* the lines of a group of entries
LinesOf(group) == [k \in 1..Len(group) |-> group[k].content]
NumbersOf(group) == [k \in 1..Len(group) |-> group[k].n]

\* group.join("\n").trim(), as the lines of the message: white space at its
\* ends goes, and only a text entry, the first line, can be white space
TrimLines(lines) ==
  IF lines # <<>> /\ lines[1] = BlankText THEN Tail(lines) ELSE lines

\* the message of one group, with the numbers of the entries it stands for
GroupMessage(group) ==
  [kind |-> "flush",
   lines |-> TrimLines(Collapse(LinesOf(group))),
   ns |-> NumbersOf(group)]

\* the groups whose message is not empty, as messages, in order
RECURSIVE MessagesFrom(_, _)
MessagesFrom(groups, i) ==
  IF i > Len(groups) THEN <<>>
  ELSE LET m == GroupMessage(groups[i]) IN
       (IF m.lines = <<>> THEN <<>> ELSE <<m>>) \o MessagesFrom(groups, i + 1)

\* a message other than a flushed group
Notice(kind) == [kind |-> kind, lines |-> <<>>, ns |-> <<>>]

\* flushChunkBuffer after its await: return on an empty buffer, or take the
\* buffer, group, collapse and start sending
FlushTake(k, fs) ==
  IF chunkBuffer = <<>>
  THEN /\ flushes' = [fs EXCEPT ![k].pc = "done"]
       /\ UNCHANGED <<chunkBuffer, textCharsSent>>
  ELSE LET msgs == MessagesFrom(GroupEntries(chunkBuffer), 1) IN
       /\ chunkBuffer' = <<>>
       /\ textCharsSent' = textCharsSent + TextChars(chunkBuffer)
       /\ flushes' = [fs EXCEPT ![k] =
                        [pc |-> IF msgs = <<>> THEN "done" ELSE "send",
                         msgs |-> msgs,
                         taken |-> chunkBuffer,
                         turn |-> fs[k].turn]]

\* the promise a flush call waits for has resolved: there is no earlier
\* call, or the call before it has run its finally
PreviousDone(k, fs) == k = 1 \/ fs[k - 1].pc = "done"

\* a call of flushChunkBuffer: it chains itself behind the call before it.
\* If that one is done, the await returns within the same task.
FlushCall ==
  LET fs == Append(flushes, [pc |-> "wait", msgs |-> <<>>, taken |-> <<>>, turn |-> hmTurn])
      k == Len(fs)
  IN IF PreviousDone(k, fs)
     THEN FlushTake(k, fs)
     ELSE /\ flushes' = fs
          /\ UNCHANGED <<chunkBuffer, textCharsSent>>

\* onChunk: a text entry is pushed
OnChunk(c, limit) ==
  /\ idleKill' = FALSE /\ UNCHANGED dirVars /\ UNCHANGED <<proxyVars, supVars, envVars, histVars>>
  /\ hmPc = "waiting"
  /\ pushed < limit
  /\ pushed' = pushed + 1
  /\ chunkBuffer' = Append(chunkBuffer, Entry("text", c, pushed'))
  /\ textPushed' = TRUE
  /\ UNCHANGED <<ctxVars, textCharsSent, flushes, flushTimer, hmPc, hmResponse,
                 lostText, hmTurn, outbox>>

\* onActivity for a line that starts with the tool mark: a tool entry is
\* pushed; other activity lines only go to the watch log
OnActivity(name, limit) ==
  /\ idleKill' = FALSE /\ UNCHANGED dirVars /\ UNCHANGED <<proxyVars, supVars, envVars, histVars>>
  /\ hmPc = "waiting"
  /\ pushed < limit
  /\ pushed' = pushed + 1
  /\ chunkBuffer' = Append(chunkBuffer, Entry("tool", ToolLine(name), pushed'))
  /\ UNCHANGED <<ctxVars, textCharsSent, flushes, flushTimer, hmPc, hmResponse,
                 textPushed, lostText, hmTurn, outbox>>

\* the 30 s interval of handleMessage fires
FlushTimerFire(limit) ==
  /\ idleKill' = FALSE /\ UNCHANGED dirVars /\ UNCHANGED <<proxyVars, supVars, envVars, histVars>>
  /\ flushTimer
  /\ Len(flushes) < limit
  /\ FlushCall
  /\ UNCHANGED <<ctxVars, flushTimer, hmPc, hmResponse, pushed, textPushed,
                 lostText, hmTurn, outbox>>

\* a waiting flush call goes on: the call before it has finished
FlushResume(k) ==
  /\ idleKill' = FALSE /\ UNCHANGED dirVars /\ UNCHANGED <<proxyVars, supVars, envVars, histVars>>
  /\ k \in 1..Len(flushes)
  /\ flushes[k].pc = "wait"
  /\ PreviousDone(k, flushes)
  /\ FlushTake(k, flushes)
  /\ UNCHANGED <<ctxVars, flushTimer, hmPc, hmResponse, pushed, textPushed,
                 lostText, hmTurn, outbox>>

\* a waiting flush call goes on: its 60 s timer won the race against the
\* call before it.  session.ts sets no time limit on sendMessage and sleeps
\* 30 s before the second attempt of a send, so a flush can last longer.
FlushTimeout(k) ==
  /\ idleKill' = FALSE /\ UNCHANGED dirVars /\ UNCHANGED <<proxyVars, supVars, envVars, histVars>>
  /\ k \in 1..Len(flushes)
  /\ flushes[k].pc = "wait"
  /\ ~PreviousDone(k, flushes)
  /\ FlushTake(k, flushes)
  /\ UNCHANGED <<ctxVars, flushTimer, hmPc, hmResponse, pushed, textPushed,
                 lostText, hmTurn, outbox>>

\* the flush call goes from one awaited sendRichResponse to the next, or to
\* its finally
FlushNext(k) ==
  flushes' = [flushes EXCEPT ![k].msgs = Tail(@),
                             ![k].pc = IF Len(flushes[k].msgs) = 1
                                       THEN "done" ELSE "send"]

\* the awaited sendRichResponse of a flush call delivers its message
FlushSendDelivers(k) ==
  /\ idleKill' = FALSE /\ UNCHANGED dirVars /\ UNCHANGED <<proxyVars, supVars, envVars, histVars>>
  /\ k \in 1..Len(flushes)
  /\ flushes[k].pc = "send"
  /\ outbox' = Append(outbox, flushes[k].msgs[1])
  /\ FlushNext(k)
  /\ UNCHANGED <<ctxVars, chunkBuffer, textCharsSent, flushTimer, hmPc,
                 hmResponse, pushed, textPushed, lostText, hmTurn>>

\* the awaited sendRichResponse of a flush call throws: the catch around it
\* is empty
FlushSendThrows(k) ==
  /\ idleKill' = FALSE /\ UNCHANGED dirVars /\ UNCHANGED <<proxyVars, supVars, envVars, histVars>>
  /\ k \in 1..Len(flushes)
  /\ flushes[k].pc = "send"
  /\ FlushNext(k)
  /\ lostText' = (lostText \/ \E j \in 1..Len(flushes[k].taken) :
                                /\ flushes[k].turn = hmTurn
                                /\ flushes[k].taken[j].type = "text"
                                /\ flushes[k].taken[j].n
                                     \in {flushes[k].msgs[1].ns[i] :
                                            i \in 1..Len(flushes[k].msgs[1].ns)})
  /\ UNCHANGED <<ctxVars, chunkBuffer, textCharsSent, flushTimer, hmPc,
                 hmResponse, pushed, textPushed, hmTurn, outbox>>

\* ---- proxy.ts: a turn from llm.send to the return of handleMessage ----------
\* The backend is what it calls back with: chunks, tool lines, and the text
\* waitForResponse resolves with.  Turns are those of plain messages
\* (pendingAvatar is false), within the watchdog's five minutes.

\* what waitForResponse may resolve with: nothing, or a text
Responses == {"", "x"}

\* a variant of EmptyTurn below: no turn counts as empty
EmptyNever(response, chars, buffer) == FALSE

\* handleMessage: !response && textCharsSent === 0 && chunkBuffer.length === 0
EmptyTurn(response, chars, buffer) ==
  response = "" /\ chars = 0 /\ buffer = <<>>

\* a variant of AfterRecord below: the full response is sent whenever there
\* is one
AfterRecordAlways(response, chars) ==
  IF response # "" THEN "deliver" ELSE "finished"

\* handleMessage: textCharsSent === 0 && response, the full response is
\* still to be sent; otherwise "Finished" is next
AfterRecord(response, chars) ==
  IF chars = 0 /\ response # "" THEN "deliver" ELSE "finished"

\* the flush calls still running; a finished call leaves a resolved promise
\* behind, which the next call passes without waiting
RunningFlushes(fs) ==
  IF \A k \in 1..Len(fs) : fs[k].pc = "done" THEN <<>> ELSE fs

\* handleMessage for a regular message, from buildPrompt to the await of
\* waitForResponse; the record of deliveries starts anew
TurnStart ==
  /\ chunkBuffer' = <<>>
  /\ textCharsSent' = 0
  /\ flushTimer' = TRUE
  /\ hmPc' = "waiting"
  /\ hmResponse' = ""
  /\ hmTurn' = hmTurn + 1
  /\ textPushed' = FALSE
  /\ lostText' = FALSE
  /\ flushes' = RunningFlushes(flushes)
  /\ outbox' = <<>>
  /\ UNCHANGED pushed

\* onMessage for a plain message, with the backend left to its callbacks
TurnOnMessage(msgLimit) ==
  /\ idleKill' = FALSE /\ UNCHANGED dirVars /\ UNCHANGED supVars
  /\ loaded
  /\ arrived < msgLimit
  /\ arrived' = arrived + 1
  /\ IF processing
     THEN /\ messageQueue' = Append(messageQueue, Tok("text", arrived'))
          /\ UNCHANGED <<processing, processingStartedAt, now, aggVars,
                         outbox>>
     ELSE /\ processing' = TRUE
          /\ now' = StartOfDrain
          /\ processingStartedAt' = now'
          /\ messageQueue' = <<>>
          /\ TurnStart
  /\ UNCHANGED <<turns, procState, batched, resolvedLog, ctxVars>>

\* handleMessage returns and the loop of processQueue goes on; sent is the
\* record of deliveries at the return
TurnReturn(sent) ==
  IF DrainMore(messageQueue)
  THEN /\ messageQueue' = <<>>
       /\ TurnStart
       /\ UNCHANGED <<processing, processingStartedAt, now>>
  ELSE /\ processing' = FALSE
       /\ processingStartedAt' = 0
       /\ now' = StartOfDrain
       /\ hmPc' = "idle"
       /\ outbox' = sent
       /\ UNCHANGED <<messageQueue, chunkBuffer, textCharsSent, flushes,
                      flushTimer, hmResponse, pushed, textPushed, lostText,
                      hmTurn>>

\* waitForResponse resolves with r: the timers are cleared and the final
\* flushChunkBuffer is called
ResponseResolves(r) ==
  /\ idleKill' = FALSE /\ UNCHANGED dirVars /\ UNCHANGED <<proxyVars, supVars, envVars, histVars>>
  /\ hmPc = "waiting"
  /\ hmResponse' = r
  /\ flushTimer' = FALSE
  /\ FlushCall
  /\ hmPc' = "flush"
  /\ UNCHANGED <<ctxVars, pushed, textPushed, lostText, hmTurn, outbox>>

\* handleMessage after the final flush returned: the empty-response notice,
\* or the exchange is recorded and compaction awaited if it is due
PostResponse(pairLimit) ==
  /\ idleKill' = FALSE /\ UNCHANGED dirVars /\ UNCHANGED <<proxyVars, supVars, envVars, histVars>>
  /\ hmPc = "flush"
  /\ flushes[Len(flushes)].pc = "done"
  /\ IF EmptyTurn(hmResponse, textCharsSent, chunkBuffer)
     THEN /\ hmPc' = "emptyNotice"
          /\ UNCHANGED ctxVars
     ELSE /\ RecordExchange(pairLimit, MaxInFlight)
          /\ hmPc' = IF compactions' # compactions THEN "compact"
                     ELSE AfterRecord(hmResponse, textCharsSent)
  /\ UNCHANGED <<chunkBuffer, textCharsSent, flushes, flushTimer, hmResponse,
                 pushed, textPushed, lostText, hmTurn, outbox>>

\* the awaited compact() has returned
PostCompacted ==
  /\ idleKill' = FALSE /\ UNCHANGED dirVars /\ UNCHANGED <<proxyVars, supVars, envVars, histVars>>
  /\ hmPc = "compact"
  /\ compactions = <<>>
  /\ hmPc' = AfterRecord(hmResponse, textCharsSent)
  /\ UNCHANGED <<ctxVars, chunkBuffer, textCharsSent, flushes, flushTimer,
                 hmResponse, pushed, textPushed, lostText, hmTurn, outbox>>

\* the awaited sends of the post-response phase, by position: the full
\* response, the empty-response notice, "Finished", and the notice of the
\* catch, "Error delivering response"
PostSends == {"deliver", "emptyNotice", "finished", "errorNotice"}

\* an awaited send of the post-response phase delivers
PostSendDelivers ==
  /\ idleKill' = FALSE /\ UNCHANGED dirVars /\ UNCHANGED <<supVars, histVars>>
  /\ hmPc \in PostSends
  /\ IF hmPc = "deliver"
     THEN /\ hmPc' = "finished"
          /\ outbox' = Append(outbox, Notice(hmPc))
          /\ UNCHANGED <<messageQueue, processing, processingStartedAt, now,
                         chunkBuffer, textCharsSent, flushes, flushTimer,
                         hmResponse, pushed, textPushed, lostText, hmTurn>>
     ELSE TurnReturn(Append(outbox, Notice(hmPc)))
  /\ UNCHANGED <<turns, procState, ctxVars>>

\* an awaited send of the post-response phase throws: the catch of the
\* phase sends its notice; a throw of "Finished" or of that notice is
\* swallowed
PostSendThrows ==
  /\ idleKill' = FALSE /\ UNCHANGED dirVars /\ UNCHANGED <<supVars, histVars>>
  /\ hmPc \in PostSends
  /\ IF hmPc \in {"deliver", "emptyNotice"}
     THEN /\ hmPc' = "errorNotice"
          /\ lostText' = FALSE
          /\ UNCHANGED <<messageQueue, processing, processingStartedAt, now,
                         chunkBuffer, textCharsSent, flushes, flushTimer,
                         hmResponse, pushed, textPushed, hmTurn, outbox>>
     ELSE TurnReturn(outbox)
  /\ UNCHANGED <<turns, procState, ctxVars>>

\* the summarizer answers or throws while a turn awaits compact()
\* (CompactSucceeds, CompactFails above)

\* handleMessage invocation w of the queue, from the resolved response on,
\* with nothing streamed: the empty-response notice and the return, or the
\* exchange is recorded and, if compaction is due, compact() awaited (the
\* turn keeps the id of its pair, the newest of the window its compact()
\* call has read); then the full response, "Finished", and the return
ResumeRecords(w, limit) ==
  /\ idleKill' = FALSE /\ UNCHANGED dirVars /\ UNCHANGED aggVars
  /\ w \in DOMAIN turns
  /\ turns[w].pc = "post"
  /\ IF EmptyTurn(turns[w].response, 0, <<>>)
     THEN /\ UNCHANGED ctxVars
          /\ HandleMessageReturns(w, limit)
     ELSE /\ RecordExchange(OverlapPairs, OverlapInFlight)
          /\ IF compactions' # compactions
             THEN /\ turns' = [turns EXCEPT ![w] =
                                 [pc |-> "compact", response |-> @.response,
                                  pair |-> state.nextId]]
                  /\ UNCHANGED <<messageQueue, processing, processingStartedAt,
                                 supVars, envVars, histVars, outbox>>
             ELSE HandleMessageReturns(w, limit)

\* the compact() call that invocation w awaits has returned
ResumeCompacted(w, limit) ==
  /\ idleKill' = FALSE /\ UNCHANGED dirVars /\ UNCHANGED aggVars
  /\ UNCHANGED ctxVars
  /\ w \in DOMAIN turns
  /\ turns[w].pc = "compact"
  /\ \A i \in 1..Len(compactions) :
       compactions[i].window[Len(compactions[i].window)].id # turns[w].pair
  /\ HandleMessageReturns(w, limit)

\* time passes.  The clock is read only by processQueue and the watchdog,
\* and only the difference now - processingStartedAt decides: it is enough
\* to let the clock jump past the timeout once while a drain is running.
Tick ==
  /\ idleKill' = FALSE /\ UNCHANGED dirVars
  /\ UNCHANGED <<aggVars, outbox>>
  /\ UNCHANGED ctxVars
  /\ processing
  /\ now - processingStartedAt <= PROCESSING_TIMEOUT
  /\ now' = now + PROCESSING_TIMEOUT + 1
  /\ UNCHANGED <<proxyVars, supVars, procState, histVars>>

Next ==
  \/ OnMessage("text", MaxMsgs, MaxProcs)
  \/ \E w \in 1..MaxMsgs : ResumeHandleMessage(w, MaxProcs)
  \/ HandleCommandKill
  \/ Tick
  \/ \E p \in 1..MaxProcs : ProcMessage(p, "x")
  \/ \E p \in 1..MaxProcs : ProcError(p)
  \/ \E p \in 1..MaxProcs : ProcResult(p)
  \/ \E p \in 1..MaxProcs : ProcExit(p)
  \/ \E p \in 1..MaxProcs : ExitHandler(p)
  \/ HealthCheckTick
  \/ RetryTimerFire(MaxProcs)
  \/ \E p \in 1..MaxProcs : KillTimeout(p)

Spec == Init /\ [][Next]_vars

\* Batching: plain messages and /profile requests, a backend that answers,
\* the watchdog; no cancellation and no retries.
BatchNext ==
  \/ \E k \in Kinds : OnMessage(k, BatchMsgs, BatchMsgs)
  \/ \E w \in 1..BatchMsgs : ResumeHandleMessage(w, BatchMsgs)
  \/ Tick
  \/ \E p \in 1..BatchMsgs : ProcMessage(p, "x")
  \/ \E p \in 1..BatchMsgs : ProcResult(p)
  \/ \E p \in 1..BatchMsgs : ProcExit(p)
  \/ \E p \in 1..BatchMsgs : ExitHandler(p)

BatchSpec == Init /\ [][BatchNext]_vars

\* Retries: one prompt after the other, a backend that may report rate
\* limits and any class of text, as many worker processes as the retry
\* budget can ask for.
RetryNext ==
  \/ OnMessage("text", RetryMsgs, RetryProcs)
  \/ \E w \in 1..RetryMsgs : ResumeHandleMessage(w, RetryProcs)
  \/ \E p \in 1..RetryProcs, c \in Contents : ProcMessage(p, c)
  \/ \E p \in 1..RetryProcs : ProcError(p)
  \/ \E p \in 1..RetryProcs : ProcResult(p)
  \/ \E p \in 1..RetryProcs : ProcExit(p)
  \/ \E p \in 1..RetryProcs : ExitHandler(p)
  \/ RetryTimerFire(RetryProcs)

RetrySpec == Init /\ [][RetryNext]_vars

\* Spawn failures: every creation of a worker process, by a drain or by a
\* retry timer, may fail.
SpawnNext ==
  \/ OnMessage("text", MaxMsgs, MaxProcs)
  \/ OnMessageSpawnFails("text", MaxMsgs, MaxProcs)
  \/ \E w \in 1..MaxMsgs : ResumeHandleMessage(w, MaxProcs)
  \/ \E w \in 1..MaxMsgs : ResumeSpawnFails(w, MaxProcs)
  \/ \E p \in 1..MaxProcs : ProcMessage(p, "x")
  \/ \E p \in 1..MaxProcs : ProcError(p)
  \/ \E p \in 1..MaxProcs : ProcResult(p)
  \/ \E p \in 1..MaxProcs : ProcExit(p)
  \/ \E p \in 1..MaxProcs : ExitHandler(p)
  \/ RetryTimerFire(MaxProcs)
  \/ RetryTimerFireThrows(MaxProcs)

SpawnSpec == Init /\ [][SpawnNext]_vars

\* Progress: plain messages, the watchdog, a backend that may report rate
\* limits, with what the runtime and the backend are taken to do in the end:
\* an awaited send of the post-response phase returns, a running worker
\* emits its result or exits, the exit handler of an ended worker runs, a
\* retry timer fires, the health probe ticks.  A worker that has emitted its result need not exit.
LiveNext ==
  \/ OnMessage("text", MaxMsgs, LiveProcs)
  \/ \E w \in 1..MaxMsgs : ResumeHandleMessage(w, LiveProcs)
  \/ Tick
  \/ \E p \in 1..LiveProcs : ProcError(p)
  \/ \E p \in 1..LiveProcs : ProcResult(p)
  \/ \E p \in 1..LiveProcs : ProcExit(p)
  \/ \E p \in 1..LiveProcs : ExitHandler(p)
  \/ RetryTimerFire(LiveProcs)
  \/ HealthCheckTick

Fairness ==
  /\ WF_vars(\E w \in 1..MaxMsgs : ResumeHandleMessage(w, LiveProcs))
  /\ \A p \in 1..LiveProcs :
       /\ WF_vars(procState[p] = "running" /\ (ProcResult(p) \/ ProcExit(p)))
       /\ WF_vars(ExitHandler(p))
  /\ WF_vars(RetryTimerFire(LiveProcs))
  /\ WF_vars(HealthCheckTick)

LiveSpec == Init /\ [][LiveNext]_vars /\ Fairness

\* Commands outside the queue: messages of every kind, a backend that
\* answers, exits, or has to be killed.
BypassNext ==
  \/ \E k \in MessageKinds : OnMessageRouted(k, BypassMsgs, MaxProcs)
  \/ \E w \in 1..BypassMsgs : ResumeHandleMessage(w, MaxProcs)
  \/ \E p \in 1..MaxProcs : ProcMessage(p, "x")
  \/ \E p \in 1..MaxProcs : ProcResult(p)
  \/ \E p \in 1..MaxProcs : ProcExit(p)
  \/ \E p \in 1..MaxProcs : ExitHandler(p)
  \/ \E p \in 1..MaxProcs : KillTimeout(p)

BypassSpec == Init /\ [][BypassNext]_vars

\* Cancellation and retries: plain messages and /kill, a backend that may
\* report rate limits, the retry timer, the kill() that times out.
CancelNext ==
  \/ \E k \in {"text", "kill"} : OnMessageRouted(k, MaxMsgs, MaxProcs)
  \/ \E w \in 1..MaxMsgs : ResumeHandleMessage(w, MaxProcs)
  \/ \E p \in 1..MaxProcs : ProcError(p)
  \/ \E p \in 1..MaxProcs : ProcResult(p)
  \/ \E p \in 1..MaxProcs : ProcExit(p)
  \/ \E p \in 1..MaxProcs : ExitHandler(p)
  \/ RetryTimerFire(MaxProcs)
  \/ \E p \in 1..MaxProcs : KillTimeout(p)

CancelSpec == Init /\ [][CancelNext]_vars

\* A rate limit reported once: plain messages, a backend whose first
\* worker alone may print a rate-limit notice, workers that answer with a
\* text or with nothing or end without a result, the retry timer.
StaleFlagNext ==
  \/ OnMessage("text", MaxMsgs, MaxProcs)
  \/ \E w \in 1..MaxMsgs : ResumeHandleMessage(w, MaxProcs)
  \/ ProcError(1)
  \/ \E p \in 1..MaxProcs : ProcMessage(p, "x")
  \/ \E p \in 1..MaxProcs : ProcResult(p)
  \/ \E p \in 1..MaxProcs : ProcExit(p)
  \/ \E p \in 1..MaxProcs : ExitHandler(p)
  \/ RetryTimerFire(MaxProcs)

StaleFlagSpec == Init /\ [][StaleFlagNext]_vars

\* Archive retention: load() at any instant of some days, on a directory
\* that holds any of: archive files dated day 0 to MaxBeyond, an archive name
\* whose ten characters are no date, and files of other names dated day 0.
\* The instants are those at which the files are from two days short of
\* the retention time to MaxBeyond days beyond it.
DirNames ==
  {FileName("archive-D.jsonl", Date(d)) : d \in 0..MaxBeyond}
    \cup {FileName("archive-D.jsonl", NoDate),
          FileName("archive-D.jsonl.bak", Date(0)),
          FileName("notes-D.txt", Date(0))}
LoadInstants ==
  ((ARCHIVE_RETENTION_DAYS - 2) * TicksPerDay)
    ..((ARCHIVE_RETENTION_DAYS + MaxBeyond + 1) * TicksPerDay - 1)

RetentionInit ==
  /\ InitService
  /\ archiveFiles \in SUBSET DirNames
  /\ clock \in LoadInstants

RetentionNext == Load(<<>>)

RetentionSpec == RetentionInit /\ [][RetentionNext]_vars

\* The context store: load() at start, then turns that record their
\* exchange, the commands /compact, /forget, /pin and /unpin, and the
\* summarizer's answers, in any order.
ContextNext ==
  \/ \E w \in PersistedWindows : Load(w)
  \/ RecordTurn
  \/ CommandCompact
  \/ \E i \in 1..MaxInFlight, s \in Summaries : CompactSucceeds(i, s)
  \/ \E i \in 1..MaxInFlight : CompactFails(i)
  \/ Reset
  \/ AddPin
  \/ \E id \in 1..MaxId : RemovePin(id)

ContextSpec == Init /\ [][ContextNext]_vars

\* The aggregator: one turn, whatever the backend streams, the interval's
\* flush and the final flush, every send delivered.
GroupNext ==
  \/ Load(<<>>)
  \/ TurnOnMessage(1)
  \/ \E c \in ChunkTexts : OnChunk(c, MaxPush)
  \/ \E name \in ToolNames : OnActivity(name, MaxPush)
  \/ FlushTimerFire(MaxFlushes)
  \/ ResponseResolves("x")
  \/ \E k \in 1..(MaxFlushes + 1) : FlushResume(k)
  \/ \E k \in 1..(MaxFlushes + 1) : FlushSendDelivers(k)

GroupSpec == Init /\ [][GroupNext]_vars

\* the windows load() finds in the turn scenario: none, or one that the
\* next pair makes due for compaction
TurnWindows ==
  {w \in PersistedWindows :
     /\ Len(w) \in {0, CompactAt}
     /\ \A k \in 1..Len(w) : ~w[k].pinned}

\* Turns: messages arrive, the backend streams and answers, flushes overlap,
\* sends deliver or throw, the exchange is recorded and compacted.
TurnNext ==
  \/ \E w \in TurnWindows : Load(w)
  \/ TurnOnMessage(TurnMsgs)
  \/ \E c \in TurnChunkTexts : OnChunk(c, TurnPush)
  \/ \E name \in TurnToolNames : OnActivity(name, TurnPush)
  \/ FlushTimerFire(MaxFlushes)
  \/ \E r \in Responses : ResponseResolves(r)
  \/ \E k \in 1..(MaxFlushes + TurnMsgs) : FlushResume(k)
  \/ \E k \in 1..(MaxFlushes + TurnMsgs) : FlushTimeout(k)
  \/ \E k \in 1..(MaxFlushes + TurnMsgs) : FlushSendDelivers(k)
  \/ \E k \in 1..(MaxFlushes + TurnMsgs) : FlushSendThrows(k)
  \/ PostResponse(TurnPairs)
  \/ PostCompacted
  \/ PostSendDelivers
  \/ PostSendThrows
  \/ \E i \in 1..MaxInFlight, s \in Summaries : CompactSucceeds(i, s)
  \/ \E i \in 1..MaxInFlight : CompactFails(i)

TurnSpec == Init /\ [][TurnNext]_vars

\* Turns one after the other, within the watchdog's five minutes: the
\* backend streams and answers, every send delivers, the exchange is
\* recorded, the summarizer answers or throws.
CompactionNext ==
  \/ \E w \in TurnWindows : Load(w)
  \/ TurnOnMessage(MaxMsgs)
  \/ \E c \in TurnChunkTexts : OnChunk(c, TurnPush)
  \/ \E r \in Responses : ResponseResolves(r)
  \/ \E k \in 1..MaxMsgs : FlushSendDelivers(k)
  \/ PostResponse(OverlapPairs)
  \/ PostCompacted
  \/ PostSendDelivers
  \/ \E i \in 1..MaxInFlight, s \in Summaries : CompactSucceeds(i, s)
  \/ \E i \in 1..MaxInFlight : CompactFails(i)

CompactionSpec == Init /\ [][CompactionNext]_vars

\* handleCommandDirect for /compact while isAlive() is false: no kill(),
\* compact() up to its await
CompactWhileIdle == ~alive /\ CommandCompact

\* Overlapping turns: plain messages, the watchdog, a backend that answers
\* or ends, every exchange recorded, /compact, every summarizer call
\* answered; no pins.
OverlapNext ==
  \/ \E w \in TurnWindows : Load(w)
  \/ CompactWhileIdle
  \/ OnMessage("text", MaxMsgs, MaxProcs)
  \/ Tick
  \/ \E p \in 1..MaxProcs : ProcMessage(p, "x")
  \/ \E p \in 1..MaxProcs : ProcResult(p)
  \/ \E p \in 1..MaxProcs : ProcExit(p)
  \/ \E p \in 1..MaxProcs : ExitHandler(p)
  \/ \E w \in 1..MaxMsgs : ResumeRecords(w, MaxProcs)
  \/ \E w \in 1..MaxMsgs : ResumeCompacted(w, MaxProcs)
  \/ \E i \in 1..OverlapInFlight, s \in Summaries : CompactSucceeds(i, s)

OverlapSpec == Init /\ [][OverlapNext]_vars

\* ---- properties ------------------------------------------------------------

\* a worker's result event is handled in this step
ResultStep(p) == procState[p] = "running" /\ procState'[p] = "resulted"
\* a turn starts in this step (llm.send is called)
SendStep == Len(turns') > Len(turns)

\* C1: at most one turn is in flight: never two handleMessage invocations
\* started and not yet returned.
C1_OneTurnInFlight ==
  Cardinality({w \in DOMAIN turns : turns[w].pc # "returned"}) <= 1

\* C2: at most one worker process of the supervisor is alive at any time.
C2_OneProcessAlive == Cardinality(Running) <= 1

\* C3 (a consequence of it): the prompt a drain hands to the backend
\* carries every one of the messages of that drain (the text is the
\* messages joined, so none of them is missing from it).
C3_EveryMessageInPrompt ==
  [][SendStep =>
       \A i \in (batched + 1)..batched' :
         \E j \in 1..Len(lastUserMessage') :
           /\ lastUserMessage'[j].id = i
           /\ lastUserMessage'[j].kind \in Kinds \cup {"svgprompt"}]_vars

\* C4: whenever the processing flag is false the queue is empty, and the
\* flag goes from true to false only when a turn returns and the queue is
\* seen empty.
C4_NoStrandedMessage ==
  /\ [](~processing => messageQueue = <<>>)
  /\ [][(processing /\ ~processing') =>
          /\ messageQueue = <<>>
          /\ messageQueue' = <<>>
          /\ \E w \in DOMAIN turns :
               turns[w].pc = "post" /\ turns'[w].pc = "returned"]_vars

\* a drain ended and cleared the flag after two turns took both messages
C4_Witness ==
  /\ ~processing
  /\ Len(turns) = 2
  /\ batched = 2
  /\ \A w \in DOMAIN turns : turns[w].pc = "returned"

\* an empty result with the rate-limit flag set, for a remembered prompt
RateLimitedResult(p) ==
  /\ ResultStep(p)
  /\ accumulatedText = ""
  /\ rateLimitDetected
  /\ lastUserMessage # <<>>

\* the result of p schedules a retry and resolves nothing
RetryScheduled ==
  /\ retryTimers' = retryTimers + 1
  /\ pendingRetry'
  /\ responseResolvers' = responseResolvers
  /\ resolvedLog' = resolvedLog

\* the result of p schedules nothing and resolves the oldest waiter, and
\* only it
HeadResolved ==
  /\ retryTimers' = retryTimers
  /\ responseResolvers # <<>>
  /\ responseResolvers' = Tail(responseResolvers)
  /\ resolvedLog' = Append(resolvedLog, Head(responseResolvers))
  /\ turns'[Head(responseResolvers)].pc = "post"

\* the text that waiter is resolved with
ResolvedText == turns'[Head(responseResolvers)].response

\* C5 as the spec states it: the first 5 rate-limited results each schedule
\* a retry, the 6th resolves the waiter with a non-empty failure notice.
C5_ExhaustedGivesNotice ==
  [][\A p \in Pids : RateLimitedResult(p) =>
       IF rateLimitRetryCount < 5
       THEN RetryScheduled /\ rateLimitRetryCount' = rateLimitRetryCount + 1
       ELSE responseResolvers # <<>> =>
              /\ HeadResolved
              /\ ResolvedText # ""
              /\ rateLimitRetryCount' = 0]_vars

\* C5, amended: the first 5 rate-limited results each schedule a retry,
\* the 6th schedules none and resolves the waiter with the empty text.
C5_ExhaustedGivesEmpty ==
  [][\A p \in Pids : RateLimitedResult(p) =>
       IF rateLimitRetryCount < 5
       THEN RetryScheduled /\ rateLimitRetryCount' = rateLimitRetryCount + 1
       ELSE responseResolvers # <<>> =>
              /\ HeadResolved
              /\ ResolvedText = ""
              /\ rateLimitRetryCount' = 0]_vars

\* one prompt, five retries behind it, the sixth worker's result resolved
\* the waiter with the empty text
C5_Witness ==
  /\ Len(turns) = 1
  /\ turns[1].pc = "post"
  /\ turns[1].response = ""
  /\ procState[MAX_RATE_LIMIT_RETRIES + 1] = "resulted"
  /\ rateLimitRetryCount = 0
  /\ retryTimers = 0

\* C6: a result whose text carries a 500 / internal-error marker, with
\* fewer than 2 API-error retries made for the prompt, schedules a retry
\* and resolves no waiter.
C6_ApiErrorRetried ==
  [][\A p \in Pids :
       (/\ ResultStep(p)
        /\ IsApiError(accumulatedText)
        /\ lastUserMessage # <<>>
        /\ apiErrorRetryCount < 2)
       => RetryScheduled /\ apiErrorRetryCount' = apiErrorRetryCount + 1]_vars

\* C7: a result that resolves a waiter leaves both retry counters at 0,
\* and so does every send.
C7_CountersReset ==
  [][/\ \A p \in Pids :
          (ResultStep(p) /\ Len(resolvedLog') > Len(resolvedLog))
          => (rateLimitRetryCount' = 0 /\ apiErrorRetryCount' = 0)
     /\ SendStep => (rateLimitRetryCount' = 0 /\ apiErrorRetryCount' = 0)]_vars

\* one prompt, one rate-limit retry, and the retry's result resolved the
\* waiter with the counter back at 0
C7_Witness ==
  /\ Len(turns) = 1
  /\ turns[1].pc = "post"
  /\ turns[1].response = "x"
  /\ procState[1] = "resulted"
  /\ procState[2] = "resulted"
  /\ resolvedLog = <<1>>
  /\ rateLimitRetryCount = 0

\* C8: waiters are resolved in the order they registered, each at most
\* once: the log of resolutions is strictly increasing.
C8_FifoOnce ==
  \A i, j \in 1..Len(resolvedLog) : i < j => resolvedLog[i] < resolvedLog[j]

\* two waiters were pending when the second worker's result came (the first
\* worker has neither reported nor exited): the older waiter is resolved,
\* the newer one still waits
C8_Witness ==
  /\ procState[1] = "running"
  /\ procState[2] = "resulted"
  /\ resolvedLog = <<1>>
  /\ responseResolvers = <<2>>

\* C9: after kill(), the exit of the killed process resolves every
\* pending waiter.
C9_KillResolvesWaiters ==
  [][\A p \in Pids :
       (p \in killWaits /\ procState[p] \in Exited /\ procState'[p] = "done")
       => responseResolvers' = <<>>]_vars

C11_ProbeArmedWhileAlive == alive => healthCheckTimer

\* the probe runs and finds its process dead while it is marked alive
ProbeFindsDead ==
  /\ HealthCheckTick
  /\ proc # NULL
  /\ alive
  /\ procState[proc] \notin Live

\* The rest of C11 taken alone: a probe tick that finds the process dead
\* although it is still marked alive resolves every pending waiter with the
\* accumulated text, or with the killed-unexpectedly notice when nothing was
\* accumulated, and leaves the supervisor idle (not alive, no handle, probe
\* stopped); a tick that finds the process running changes nothing.
ProbeRecovers ==
  [][/\ ProbeFindsDead =>
          /\ responseResolvers' = <<>>
          /\ \A i \in 1..Len(responseResolvers) :
               /\ turns'[responseResolvers[i]].pc = "post"
               /\ turns'[responseResolvers[i]].response =
                    (IF accumulatedText # "" THEN accumulatedText
                     ELSE KilledNotice)
          /\ resolvedLog' = resolvedLog \o responseResolvers
          /\ accumulatedText' = ""
          /\ ~alive'
          /\ proc' = NULL
          /\ ~healthCheckTimer'
     /\ (HealthCheckTick /\ proc # NULL /\ alive /\ procState[proc] \in Live)
          => (healthCheckTimer' /\ UNCHANGED <<supVars, turns, resolvedLog>>)]_vars

\* the creation of a worker process fails in this step
SpawnFails == \E p \in Pids : procState[p] = "unborn" /\ procState'[p] = "failed"

\* C12: a failure to create the worker process does not escape send() (no
\* handleMessage invocation ends in processQueue's catch), and the step in
\* which it happens resolves every pending waiter with a failure notice:
\* none stays pending.
C12_SpawnFailureResolves ==
  [][SpawnFails =>
       /\ \A w \in DOMAIN turns' : turns'[w].pc # "caught"
       /\ responseResolvers' = <<>>
       /\ \A i \in 1..Len(responseResolvers) :
            /\ turns'[responseResolvers[i]].pc = "post"
            /\ turns'[responseResolvers[i]].response
                 \in {ExitFailedNotice, KilledNotice}]_vars

\* the exit handler of worker p runs in this step
ExitHandled(p) == procState[p] \in Live \cup Exited /\ procState'[p] = "done"

\* C13: between the scheduling of a retry and the end of the retried
\* worker the pending waiters are neither resolved nor dropped: no step
\* taken while the retry timer is pending touches them, and the exit of a
\* failed attempt's worker (one that a retry has already replaced by a newer
\* worker) does not resolve them.
C13_RetryKeepsWaiters ==
  [][/\ retryTimers > 0 =>
          UNCHANGED <<responseResolvers, resolvedLog>>
     /\ \A p \in Pids :
          (ExitHandled(p) /\ p < NextPid - 1) =>
            UNCHANGED <<responseResolvers, resolvedLog>>]_vars

\* ---- properties of the context store ----------------------------------------

\* the pairs of a window, as a set
PairsOf(w) == {w[k] : k \in 1..Len(w)}
\* the pinned pairs of a window, counted
PinnedCount(w) == Cardinality({k \in 1..Len(w) : w[k].pinned})
UnpinnedCount(w) == Cardinality({k \in 1..Len(w) : ~w[k].pinned})
\* compact() on window w is in one of its guard cases
GuardCase(w) ==
  \/ Len(w) <= WindowSize
  \/ WindowSize - PinnedCount(w) <= 0
  \/ UnpinnedCount(w) <= WindowSize - PinnedCount(w)
\* a step of compact(): a call up to its await or its return at a guard,
\* or the rest of a call after the summarizer answered or threw
CompactStep ==
  \/ CommandCompact
  \/ \E i \in 1..MaxInFlight : CompactFails(i)
  \/ \E i \in 1..MaxInFlight, s \in Summaries : CompactSucceeds(i, s)

\* C14: compaction never evicts a pinned pair.  No step of compact() takes
\* a pinned pair out of the window, and the window a successful compaction
\* leaves holds every pinned pair of the window it was called on, with the
\* same fields.
C14_PinnedSurvive ==
  [][/\ CompactStep =>
          \A p \in PairsOf(recent) : p.pinned => p \in PairsOf(recent')
     /\ \A i \in 1..MaxInFlight, s \in Summaries :
          CompactSucceeds(i, s) =>
            \A p \in PairsOf(compactions[i].window) :
              p.pinned => p \in PairsOf(recent')]_vars

\* a compaction evicted the unpinned pair 2 and kept the older, pinned
\* pair 1
C14_Witness ==
  /\ recent = <<Pair(1, 1, TRUE), Pair(3, 3, FALSE)>>
  /\ archive = <<Pair(1, 1, TRUE), Pair(2, 2, FALSE), Pair(3, 3, FALSE)>>
  /\ summary = "digest"
  /\ compactions = <<>>

\* C15: compact() called in a guard case (window length <= windowSize, or
\* windowSize - pinnedCount <= 0, or unpinnedCount <= that target) changes
\* neither window nor summary nor archive, in memory and on disk, and
\* makes no summarizer call; the same holds for the compact() at the end of
\* a turn, the turn's own append apart.
C15_GuardNoOp ==
  [][/\ (CommandCompact /\ GuardCase(recent)) =>
          UNCHANGED <<recent, summary, archive, recentFile, summaryFile,
                      state, stateFile, compactions>>
     /\ (RecordTurn /\ GuardCase(recent')) =>
          /\ compactions' = compactions
          /\ SubSeq(recent', 1, Len(recent)) = recent
          /\ Len(recent') = Len(recent) + 1
          /\ UNCHANGED <<summary, summaryFile>>]_vars

\* /compact has just returned at the second guard: the window is longer
\* than windowSize, and its pinned pairs alone fill it
C15_Witness ==
  /\ lastOp = "compactSkipped"
  /\ Len(recent) > WindowSize
  /\ PinnedCount(recent) >= WindowSize
  /\ compactions = <<>>

\* C16: a compact() call that is not in a guard case hands the summarizer
\* the current summary and the texts of the oldest (unpinnedCount -
\* targetUnpinned) unpinned pairs, in order; when the summarizer answers,
\* the window becomes the pinned pairs plus the newest targetUnpinned
\* unpinned pairs of the window at the call, sorted by id ascending, of
\* length windowSize, and the pairs gone are exactly those handed over.
C16_EvictsOldest ==
  [][/\ (CompactStep /\ Len(compactions') > Len(compactions)) =>
          LET u == UnpinnedOf(recent)
              k == UnpinnedCount(recent) - (WindowSize - PinnedCount(recent))
              c == compactions'[Len(compactions')]
          IN /\ ~GuardCase(recent)
             /\ c.window = recent
             /\ c.compactionInput.summary = summary
             /\ c.compactionInput.messages = [j \in 1..k |-> u[j].text]
     /\ \A i \in 1..MaxInFlight, s \in Summaries :
          CompactSucceeds(i, s) =>
            LET w == compactions[i].window
                u == UnpinnedOf(w)
                k == UnpinnedCount(w) - (WindowSize - PinnedCount(w))
            IN /\ PairsOf(recent') =
                    {p \in PairsOf(w) : p.pinned}
                      \cup {u[j] : j \in (k + 1)..Len(u)}
               /\ PairsOf(w) \ PairsOf(recent') = {u[j] : j \in 1..k}
               /\ compactions[i].compactionInput.messages =
                    [j \in 1..k |-> u[j].text]
               /\ Len(recent') = WindowSize
               /\ \A a, b \in 1..Len(recent') :
                    a < b => recent'[a].id <= recent'[b].id
               /\ summary' = s]_vars

\* the compaction at the end of the fourth turn evicted the two oldest
\* pairs of four
C16_Witness ==
  /\ recent = <<Pair(3, 3, FALSE), Pair(4, 4, FALSE)>>
  /\ Len(archive) = 4
  /\ summary = "digest"
  /\ compactions = <<>>

\* C17: when the summarizer call throws, compact() returns (its catch logs)
\* and window, summary, counters and archive are what they were, in memory
\* and on disk.
C17_FailureChangesNothing ==
  [][\A i \in 1..MaxInFlight :
       CompactFails(i) =>
         /\ UNCHANGED <<recent, summary, state, recentFile, summaryFile,
                        stateFile, archive>>
         /\ (recent = compactions[i].window =>
               recent' = compactions[i].window)
         /\ lastOp' = "compactFailed"]_vars

\* a compaction has just failed: no call is left waiting, the window is
\* still longer than windowSize and holds every archived pair
C17_Witness ==
  /\ lastOp = "compactFailed"
  /\ compactions = <<>>
  /\ Len(recent) > WindowSize
  /\ recent = archive
  /\ recentFile = recent
  /\ summary = ""

\* C18: the recent window is sorted by id ascending in every reachable
\* state.
C18_WindowSorted ==
  \A a, b \in 1..Len(recent) : a < b => recent[a].id <= recent[b].id

\* C19: the ids of all pins and of all pairs of the recent window are
\* pairwise distinct in every reachable state.
C19_IdsUnique ==
  /\ \A a, b \in 1..Len(recent) : a # b => recent[a].id # recent[b].id
  /\ \A a, b \in 1..Len(state.pins) :
       a # b => state.pins[a].id # state.pins[b].id
  /\ \A a \in 1..Len(recent), b \in 1..Len(state.pins) :
       recent[a].id # state.pins[b].id

\* C20: reset() leaves an empty window, an empty summary and the state
\* {nextId: 1, totalPairs: 0, pins: []}, in memory and on disk, and every
\* archive record where and what it was.
C20_ResetClears ==
  [][Reset =>
       /\ recent' = <<>>
       /\ summary' = ""
       /\ state' = [nextId |-> 1, totalPairs |-> 0, pins |-> <<>>]
       /\ recentFile' = <<>>
       /\ summaryFile' = ""
       /\ stateFile' = state'
       /\ archive' = archive]_vars

\* after a reset: the store is as new, the archive holds the history
C20_Witness ==
  /\ loaded
  /\ recent = <<>>
  /\ summary = ""
  /\ state = [nextId |-> 1, totalPairs |-> 0, pins |-> <<>>]
  /\ Len(archive) = MaxPairs

\* a is an initial segment of b
IsPrefix(a, b) == Len(a) <= Len(b) /\ SubSeq(b, 1, Len(a)) = a
\* a step of a command that is neither a turn nor load()
StoreCommandStep ==
  \/ CompactStep
  \/ Reset
  \/ AddPin
  \/ \E id \in 1..MaxId : RemovePin(id)

\* C21: the archive is append-only.  The append() of a turn puts one pair,
\* the same one, at the end of the window and at the end of the archive,
\* adds exactly 1 to totalPairs, leaves pins and summary alone and leaves
\* nextId at what the turn's nextPairId() made it (the pair's id plus one);
\* no step of compact(), reset(), addPin() or removePin() changes the
\* archive; every step leaves every archived record where and what it was.
C21_ArchiveAppendOnly ==
  [][/\ RecordTurn =>
          /\ Len(recent') = Len(recent) + 1
          /\ IsPrefix(recent, recent')
          /\ Len(archive') = Len(archive) + 1
          /\ archive'[Len(archive')] = recent'[Len(recent')]
          /\ recent'[Len(recent')].id = state.nextId
          /\ state'.totalPairs = state.totalPairs + 1
          /\ state'.nextId = state.nextId + 1
          /\ state'.pins = state.pins
          /\ summary' = summary
          /\ recentFile' = recent'
          /\ stateFile' = state'
     /\ StoreCommandStep => archive' = archive
     /\ IsPrefix(archive, archive')]_vars

\* the archive holds every pair ever appended, after a compaction evicted
\* pairs from the window and a pin was added
C21_Witness ==
  /\ Len(archive) = MaxPairs
  /\ \A k \in 1..MaxPairs : archive[k].text = k
  /\ Len(recent) = WindowSize
  /\ summary = "digest"
  /\ Len(state.pins) = 1

C22_Removed ==
  /\ lastOp = "removePinTrue"
  /\ state.pins = <<>>
  /\ state.nextId > 1

\* ---- properties of the aggregator -------------------------------------------

\* the delivered messages that are flushed groups, in order of delivery
FlushedMessages == SelectSeq(outbox, LAMBDA m : m.kind = "flush")
\* the numbers of a sequence of numbers or of entries, as a set
Range(f) == {f[i] : i \in 1..Len(f)}
\* the entry pushed as number n, found in what the flush calls took
TakenEntries == UNION {Range(flushes[k].taken) : k \in 1..Len(flushes)}
EntryOf(n) == CHOOSE e \in TakenEntries : e.n = n
\* the entries a delivered message stands for, in order
EntriesOf(m) == [i \in 1..Len(m.ns) |-> EntryOf(m.ns[i])]

\* C23: flushes never reorder output.  Of any two delivered messages of
\* flushed groups, the one delivered first holds the entries pushed first.
C23_FlushOrder ==
  \A i, j \in 1..Len(FlushedMessages) :
    i < j =>
      \A a \in Range(FlushedMessages[i].ns), b \in Range(FlushedMessages[j].ns) :
        a < b

\* C23, second half: a flush call that has taken the buffer finds every
\* earlier call finished.
C23_OneFlushSending ==
  \A j, k \in 1..Len(flushes) :
    (j < k /\ flushes[k].pc # "wait") => flushes[j].pc = "done"

\* the runs of a group: a text entry is a run of its own; a tool entry joins
\* the run before it when that is a run of the same tool line
RECURSIVE RunsFrom(_, _, _)
RunsFrom(group, i, runs) ==
  IF i > Len(group) THEN runs
  ELSE LET e == group[i] IN
       IF /\ e.type = "tool"
          /\ runs # <<>>
          /\ runs[Len(runs)].type = "tool"
          /\ runs[Len(runs)].line = e.content
       THEN RunsFrom(group, i + 1, [runs EXCEPT ![Len(runs)].k = @ + 1])
       ELSE RunsFrom(group, i + 1,
                     Append(runs, [type |-> e.type, line |-> e.content, k |-> 1]))
\* a run of k lines X as it is to be rendered: X, or "X (xk)" for k >= 2
Rendered(run) == IF run.k = 1 THEN run.line ELSE WithCount(run.line, run.k)
RunLines(group) ==
  LET runs == RunsFrom(group, 1, <<>>) IN
  [i \in 1..Len(runs) |-> Rendered(runs[i])]

\* C24: collapsing.  The lines of every delivered group are its runs: the
\* text as written, a single tool line as written, a run of k >= 2
\* identical tool lines X as the one line "X (xk)"; lines that are not
\* identical tool lines are not merged.
C24_RunsCollapsed ==
  \A i \in 1..Len(FlushedMessages) :
    LET m == FlushedMessages[i] IN
    m.lines = TrimLines(RunLines(EntriesOf(m)))

\* what holds of the collapsing: three pushes of tool X, alone in a flush,
\* are delivered as the one line "X (x3)"
ThreeAsOne ==
  /\ Len(outbox) = 1
  /\ outbox[1].lines = <<Line(TRUE, "X", <<3>>)>>
  /\ outbox[1].ns = <<1, 2, 3>>

\* no entry of the group reads like the entry before it, so that the
\* collapsing leaves the group as it is
NoRepeat(group) ==
  \A i \in 1..(Len(group) - 1) :
    ~(group[i + 1].content.mark /\ PrevBase(group[i].content) = group[i + 1].content)

\* C25: grouping.  In every flush, each delivered message stands for
\* consecutive entries of the buffer, the first of them a text entry or the
\* first entry taken, the others tool entries, and the entry after them is
\* no tool entry; messages are delivered in buffer order, no entry in two of
\* them; when the flush has finished, every entry taken is in a message,
\* but for a text of white space that no tool entry follows, whose group is
\* empty; and the lines of a message are the contents of its entries in
\* order (white space at the ends trimmed, repeated tool lines collapsed).
\* Stated of the message delivered last and of the flush that ended last:
\* every message and every flush was that once.
LastGrouped ==
  LET sent == FlushedMessages
      last == Len(sent)
      m == sent[last]
      k == CHOOSE k \in 1..Len(flushes) :
             \E x \in 1..Len(flushes[k].taken) : flushes[k].taken[x].n = m.ns[1]
      taken == flushes[k].taken
      first == CHOOSE x \in 1..Len(taken) : taken[x].n = m.ns[1]
      g == [x \in 1..Len(m.ns) |-> taken[first + x - 1]]
  IN /\ Len(m.ns) >= 1
     /\ first + Len(m.ns) - 1 <= Len(taken)
     /\ \A x \in 1..Len(g) : g[x].n = m.ns[x]
     /\ g[1].type = "text" \/ first = 1
     /\ \A x \in 2..Len(g) : g[x].type = "tool"
     /\ first + Len(g) <= Len(taken) => taken[first + Len(g)].type = "text"
     /\ NoRepeat(g) => m.lines = TrimLines(LinesOf(g))
     /\ Len(m.lines) <= Len(g)
     /\ last > 1 => sent[last - 1].ns[Len(sent[last - 1].ns)] < m.ns[1]
AllDelivered(k) ==
  LET sent == FlushedMessages
      taken == flushes[k].taken
  IN \A x \in 1..Len(taken) :
       LET alone == /\ taken[x].type = "text"
                    /\ taken[x].content = BlankText
                    /\ (x = Len(taken) \/ taken[x + 1].type = "text")
       IN alone <=> ~\E i \in 1..Len(sent) : \E y \in 1..Len(sent[i].ns) :
                       sent[i].ns[y] = taken[x].n
ArchiveDated(f) == f.form = "archive-D.jsonl" /\ f.date.valid
\* the days from the file's date to today's
DaysOld(f) == (clock \div TicksPerDay) - f.date.day

\* C30: archive retention at load().  load() deletes nothing but archive
\* files, and of the files it finds it deletes exactly those named as an
\* archive file of a date whose midnight UTC is earlier than the instant of
\* the call minus 30 days: a file 31 days old goes, a file 29 days old
\* stays, and so does every file of another name.
C30_Retention ==
  [][(~loaded /\ loaded') =>
       /\ archiveFiles' \subseteq archiveFiles
       /\ \A f \in archiveFiles :
            /\ f \notin archiveFiles' <=>
                 /\ ArchiveDated(f)
                 /\ f.date.day * TicksPerDay
                      < clock - ARCHIVE_RETENTION_DAYS * TicksPerDay
            /\ (ArchiveDated(f) /\ DaysOld(f) = 31) => f \notin archiveFiles'
            /\ (ArchiveDated(f) /\ DaysOld(f) = 29) => f \in archiveFiles'
            /\ f.form # "archive-D.jsonl" => f \in archiveFiles']_vars

\* load() found an archive file 31 days old, one 29 days old and a file
\* of another name 31 days old: the first is gone, the others are there
C30_Witness ==
  /\ loaded
  /\ \E f \in listed \ archiveFiles : ArchiveDated(f) /\ DaysOld(f) = 31
  /\ \E f \in archiveFiles : ArchiveDated(f) /\ DaysOld(f) = 29
  /\ \E f \in archiveFiles : f.form = "notes-D.txt" /\ DaysOld(f) = 31

\* an archive file dated 30 days before today: kept by a load() at
\* midnight, deleted by a load() later in the day
C30_ThirtyKept ==
  /\ loaded
  /\ clock % TicksPerDay = 0
  /\ \E f \in archiveFiles : ArchiveDated(f) /\ DaysOld(f) = 30
C30_ThirtyDeleted ==
  /\ loaded
  /\ clock % TicksPerDay # 0
  /\ \E f \in listed \ archiveFiles : ArchiveDated(f) /\ DaysOld(f) = 30

\* ---- properties of overlapping turns and the window ---------------------------

\* no handleMessage invocation of the queue is between its start and its
\* return
NoTurnInFlight == \A w \in DOMAIN turns : turns[w].pc = "returned"

\* C33: the window stays bounded.  With no pinned pair, windowSize at most
\* compactAt and every summarizer call succeeding, the recent window never
\* holds more than compactAt + 1 pairs, and at most compactAt pairs while
\* no turn is in flight.
C33_WindowBounded ==
  /\ Len(recent) <= CompactAt + 1
  /\ NoTurnInFlight => Len(recent) <= CompactAt

\* C36: no exchange is silently dropped from context.  A pair appended
\* while a compact() call awaits the summarizer, one that is not in the
\* window this call has read, is still in the window when the call
\* completes.
C36_AppendedPairKept ==
  [][\A i \in 1..OverlapInFlight, s \in Summaries :
       CompactSucceeds(i, s) =>
         \A k \in 1..Len(recent) :
           ~InSeq(recent[k], compactions[i].window) => InSeq(recent[k], recent')]_vars

\* at rest (no turn in flight, no compact() call pending) the pair appended
\* last, which no summarizer call was given, is in the window
C36_NewestKept ==
  (loaded /\ NoTurnInFlight /\ compactions = <<>> /\ archive # <<>>) =>
    InSeq(archive[Len(archive)], recent)

\* C37: a reset is not undone by work that was in flight.  A compact()
\* call that is pending while the window is empty was made before a
\* reset(); when it completes, the window is still empty and the summary is
\* still the one the reset left.
C37_ResetNotUndone ==
  [][\A i \in 1..MaxInFlight, s \in Summaries :
       (CompactSucceeds(i, s) /\ recent = <<>> /\ summary = "") =>
         (recent' = <<>> /\ summary' = "")]_vars

\* ---- progress ------------------------------------------------------------------

\* the model has no worker process left for a spawn that is due
SpawnBlocked ==
  NextPid > LiveProcs /\ (retryTimers > 0 \/ messageQueue # <<>>)
\* handleMessage invocation w awaits waitForResponse()
Waiting(w) == w \in DOMAIN turns /\ turns[w].pc = "waiting"

\* C32: eventual processing.  Every message pushed to the queue is in the
\* end part of a batch handed to the backend, every waiter of
\* waitForResponse() is in the end resolved, and again and again the
\* processing flag is false with the queue empty (as far as the model has
\* worker processes to spawn).
C32_EventuallyProcessed ==
  /\ \A n \in 1..MaxMsgs : (arrived >= n) ~> (batched >= n \/ SpawnBlocked)
  /\ \A w \in 1..MaxMsgs : Waiting(w) ~> (~Waiting(w) \/ SpawnBlocked)
  /\ []<>((~processing /\ messageQueue = <<>>) \/ SpawnBlocked)

\* ---- properties of the command bypass ------------------------------------------

\* a message of kind k arrives in this step
Arrives(k) == OnMessageRouted(k, BypassMsgs, MaxProcs)

\* C26: commands bypass the queue.  The arrival of a slash command other
\* than a /profile request, whatever the service is doing, leaves the queue,
\* the processing flag, its time stamp and every handleMessage call as they
\* are; in that step the response is sent (delivered, or its throw
\* swallowed) or, for /kill with a live worker at hand, kill() is called
\* and awaited, which the worker's exit or the 5 s timeout ends.  Plain text
\* and /profile requests are appended to the queue.
C26_CommandsBypass ==
  [][/\ \A k \in {"status", "kill", "stop"} :
          Arrives(k) =>
            /\ UNCHANGED <<messageQueue, processing, processingStartedAt, turns,
                           batched>>
            /\ IF k = "kill" /\ alive /\ proc # NULL
               THEN /\ ~alive'
                    /\ proc \in killWaits'
                    /\ procState[proc] \in Live \cup Exited
                    /\ UNCHANGED outbox
               ELSE /\ \/ outbox' = outbox
                       \/ /\ Len(outbox') = Len(outbox) + 1
                          /\ SubSeq(outbox', 1, Len(outbox)) = outbox
                          /\ outbox'[Len(outbox')].kind = "answer"
                    /\ UNCHANGED supVars
     /\ \A k \in {"text", "profile"} :
          Arrives(k) =>
            \/ messageQueue' = Append(messageQueue, Tok(k, arrived'))
            \/ /\ messageQueue' = <<>>
               /\ batched' = batched + Len(messageQueue) + 1]_vars

\* while the first message's turn was waiting for the backend and a second
\* message was queued behind it, a command arrived and was answered
C26_Witness ==
  /\ processing
  /\ Len(turns) = 1
  /\ turns[1].pc = "waiting"
  /\ Len(messageQueue) = 1
  /\ outbox = <<Answer("status")>>
  /\ alive

\* /kill arrived during a turn: the worker is being killed, the turn is
\* still waiting, the queued message is in its place
C26_KillInFlight ==
  /\ processing
  /\ Len(turns) = 1
  /\ turns[1].pc = "waiting"
  /\ Len(messageQueue) = 1
  /\ killWaits # {}
  /\ ~alive

\* C31: the documented cancel command.  "/stop", arriving while the worker
\* of a request is alive, gets a result with killProcess set, and kill() is
\* called on that worker: it is no longer marked alive and its exit is
\* awaited.
C31_StopCancels ==
  [][(Arrives("stop") /\ alive /\ proc # NULL) =>
       /\ HandleCommand("stop", alive).killProcess
       /\ ~alive'
       /\ proc \in killWaits']_vars

\* ---- properties of the queue boundary ------------------------------------------

\* C27: an exception of handleMessage is contained by processQueue.  While
\* the catch is at work the processing flag stays set; the step that leaves
\* the catch has sent the error message or swallowed the throw of that send,
\* nothing else is delivered; if messages were queued meanwhile the loop
\* takes all of them as the next batch, otherwise the flag and its time
\* stamp are cleared; the caught call counts as returned, and no call is
\* left in the catch when the drain has ended.
C27_CaughtAtQueue ==
  [][\A w \in DOMAIN turns :
       (turns[w].pc = "caught") =>
         /\ processing
         /\ turns'[w].pc \in {"caught", "returned"}
         /\ (turns'[w].pc = "returned") =>
              /\ outbox' \in {outbox, Append(outbox, ErrorNotice)}
              /\ IF messageQueue # <<>>
                 THEN /\ messageQueue' = <<>>
                      /\ processing'
                      /\ Len(turns') = Len(turns) + 1
                      /\ batched' = batched + Len(messageQueue)
                 ELSE /\ ~processing'
                      /\ processingStartedAt' = 0
                      /\ turns' = [turns EXCEPT ![w].pc = "returned"]
                      /\ messageQueue' = <<>>]_vars

\* the first batch could not start its worker; the error message was
\* delivered, and the loop went on to the message queued meanwhile, whose
\* worker is running
C27_Witness ==
  /\ Len(turns) = 2
  /\ turns[1].pc = "returned"
  /\ turns[2].pc = "waiting"
  /\ outbox = <<ErrorNotice>>
  /\ processing
  /\ messageQueue = <<>>
  /\ batched = 2

\* the drain ended after a caught exception whose error message could not
\* be sent either
C27_Unreported ==
  /\ Len(turns) = 1
  /\ turns[1].pc = "returned"
  /\ outbox = <<>>
  /\ ~processing
  /\ procState[1] = "failed"

\* ---- properties of the post-response phase ----------------------------------

\* what the context store holds, in memory and on disk
StoreContents == <<recent, summary, state, recentFile, summaryFile, stateFile,
                   archive, compactions>>

\* C28: a failed delivery of the response is surfaced.  When a send of the
\* turn's response text has thrown, as a streamed group or as the full
\* response, the turn does not go on to "Finished" or end before the
\* notice "Error delivering response" has been sent.
C28_FailureSurfaced == lostText => hmPc \notin {"finished", "idle"}

\* C28, second half: a handleMessage call that has returned with the queue
\* empty has left the processing flag cleared.
C28_FlagCleared == (hmPc = "idle") <=> ~processing

\* C29: an empty response is detected and reported.  When the final flush
\* has returned, the response is empty and no text entry was pushed in the
\* turn, the next thing handleMessage does is send the empty-response
\* notice; from there to its return the store is left as it is (no pair in
\* window or archive, nextId and totalPairs as before, no compact() call),
\* and the send, if it delivers, delivers that notice.
C29_EmptyReported ==
  [][/\ (hmPc = "flush" /\ hmPc' # "flush" /\ hmResponse = "" /\ ~textPushed) =>
          /\ hmPc' = "emptyNotice"
          /\ UNCHANGED StoreContents
     /\ hmPc = "emptyNotice" =>
          /\ UNCHANGED StoreContents
          /\ hmPc' \in {"emptyNotice", "errorNotice", "idle", "waiting"}
          /\ (PostSendDelivers /\ hmPc' = "idle") =>
               outbox' = Append(outbox, Notice("emptyNotice"))]_vars

\* a turn that streamed one tool line and no text ended with the
\* empty-response notice; the window, one pair short of compaction and
\* with the next pair due for it, is as load() found it
C29_Witness ==
  /\ hmPc = "idle"
  /\ hmTurn = 1
  /\ hmResponse = ""
  /\ outbox = <<[kind |-> "flush", lines |-> <<ToolLine("X")>>, ns |-> <<1>>],
                Notice("emptyNotice")>>
  /\ Len(recent) = CompactAt
  /\ archive = recent
  /\ state.nextId = CompactAt + 1
  /\ summary = ""

\* ---- properties of a failed end-of-turn compaction ------------------------------

\* the response of the turn has reached the user: the full response, or
\* the text a flush took, in a flushed message
ResponseDelivered ==
  IF textCharsSent = 0
  THEN hmResponse # "" => Notice("deliver") \in Range(outbox)
  ELSE \E j \in 1..Len(outbox) : outbox[j].kind = "flush"

\* C34: a failed compaction does not disturb the turn and is retried.  If
\* the summarizer call fails while the turn awaits compact(), the pair of the
\* turn stays in the window, the turn goes on to deliver the response, and
\* the next turn that records a pair finds needsCompaction() true and calls
\* compact() again.
C34_FailedCompactionRetried ==
  [][/\ ((\E i \in 1..MaxInFlight : CompactFails(i)) /\ hmPc = "compact") =>
          /\ recent' = recent
          /\ recent[Len(recent)].text = Len(archive)
          /\ Len(recent') > CompactAt
     /\ (lastOp = "compactFailed" /\ hmPc = "compact" /\ hmPc' # hmPc) =>
          hmPc' = AfterRecord(hmResponse, textCharsSent)
     /\ (lastOp = "compactFailed" /\ hmPc' = "finished") => ResponseDelivered'
     /\ (/\ lastOp = "compactFailed"
         /\ hmPc = "flush" /\ hmPc' # hmPc
         /\ ~EmptyTurn(hmResponse, textCharsSent, chunkBuffer)) =>
          /\ hmPc' = "compact"
          /\ Len(compactions') = Len(compactions) + 1]_vars

\* the turn after a failed compaction has recorded its pair and awaits
\* compact() again
C34_Witness ==
  /\ hmTurn = 2
  /\ hmPc = "compact"
  /\ Len(compactions) = 1
  /\ Len(recent) = CompactAt + 2

\* the turn whose compaction failed has delivered its response
C34_Delivered ==
  /\ lastOp = "compactFailed"
  /\ hmPc = "finished"
  /\ Notice("deliver") \in Range(outbox)

\* ---- properties of stale processes and of retries ---------------------------------

\* the exit handler of process p runs while the supervisor's handle is
\* another, live worker
StaleExit(p) ==
  /\ proc # NULL /\ p # proc /\ alive
  /\ ProcExit(p) \/ ExitHandler(p)
  /\ procState'[p] = "done"

\* C35: a stale process cannot affect the current invocation.  The exit of
\* an earlier process, handled after a newer process was spawned, resolves
\* no waiter, leaves alive true and leaves the probe of the new process
\* running.
C35_StaleExitHarmless ==
  [][\A p \in 1..MaxProcs :
       StaleExit(p) => /\ alive'
                       /\ healthCheckTimer' = healthCheckTimer
                       /\ responseResolvers' = responseResolvers]_vars

\* C38: cancelling during a retry wait cancels the retry.  When /kill
\* arrives while a retry timer is set, the command reports a cancellation
\* and no timer is left to respawn the prompt.
C38_KillCancelsRetry ==
  [][(Arrives("kill") /\ retryTimers > 0) =>
       /\ HandleCommand("kill", alive).response = "Request cancelled"
       /\ retryTimers' = 0]_vars

\* /kill, arriving during a retry wait after the worker has gone, reports
\* a cancellation
C38_ReportsCancel ==
  [][(Arrives("kill") /\ retryTimers > 0) =>
       HandleCommand("kill", alive).response = "Request cancelled"]_vars

\* C39: the rate-limit flag is scoped to one prompt.  Where only the first
\* worker, which serves the first prompt, prints a rate-limit notice, the
\* result of a worker that serves the second prompt schedules no retry.
C39_FlagScopedToPrompt ==
  [][\A p \in 1..MaxProcs :
       (ProcResult(p) /\ batched = MaxMsgs) => retryTimers' = retryTimers]_vars

\* ---- properties of the delivery of a response -----------------------------------

\* a text entry is still in the buffer
TextWaiting ==
  \E j \in 1..Len(chunkBuffer) : chunkBuffer[j].type = "text"

\* a text entry of the current turn has been taken by a flush call: one was
\* pushed in this turn, and entries leave the buffer of a turn only when a
\* flush call takes them
TextTaken == textPushed /\ ~TextWaiting

C40_Streamed ==
  /\ hmPc = "finished"
  /\ hmResponse # ""
  /\ TextTaken
  /\ \E j \in 1..Len(outbox) : outbox[j].kind = "flush"

====
